---- MODULE Spec2Model ----
(***************************************************************************)
(* Poll lifecycle and reminder engine of bot.py: the vote handler          *)
(* (BasePollView.handle_vote), the hourly reminder scheduler               *)
(* (send_reminders / check_and_send_reminders / close_poll) and the three  *)
(* relations polls, votes and reminders_sent.                              *)
(*                                                                         *)
(* Time is counted in whole hours since an arbitrary origin that falls on  *)
(* a midnight: the date of t is t \div 24 and its hour t % 24.             *)
(***************************************************************************)
EXTENDS Integers, Sequences, FiniteSets, TLC

\* ------------------------------------------------------------ bounds -----
\* Last hour the clock reaches in the vote specifications.
MaxVoteTime == 2
\* Last hour the clock reaches in the scheduler specifications.
MaxSchedTime == 52
\* Hours the clock may advance while a scheduler tick is running.
MaxTickLag == 1
\* Largest week number of a weekly reminder, and the value at which the
\* counters of the history stop counting.
MaxWeeks == 2
MaxCount == 2
\* Largest age in days for which the non-voter reminder is evaluated.
MaxDays == 4
\* Last hour the clock reaches in the specification with two polls and both
\* schedulers.
MaxTickTime == 20
\* Last day that is typed into the DateModal, and the last hour the clock
\* reaches in the creation specification.
MaxInputDay == 1
MaxCreateTime == 13
\* Last hour the clock reaches in the specification with fairness.
MaxLiveTime == 44
\* Last hour the clock reaches in the specification of the change of hour.
MaxDstTime == 117

\* ------------------------------------------------------- configuration ---
REMINDER_J_MINUS_2_MIN == 47
REMINDER_J_MINUS_2_MAX == 49
REMINDER_J_MINUS_1_MIN == 23
REMINDER_J_MINUS_1_MAX == 25
DAILY_REMINDER_HOUR == 19
\* Config.TZ = ZoneInfo("Europe/Paris"): the instant, in hours, at which
\* daylight saving time ends.
DstEnd == 99
MAX_EVENT_DAYS_AHEAD == 730
MAX_OPTIONS == 20
\* poll_command has the parameters choix1 to choix20.
ChoiceParameters == 20

\* max_date IS NULL
NoDate == -1

\* What poll[p] holds while polls has no row with id p.
NoRow == [is_presence |-> FALSE, allow_multiple |-> FALSE, max_date |-> NoDate,
          created_at |-> 0, event_date |-> 0, options |-> 0]

\* ------------------------------------------------------------ domains ----
PollIds == {1, 2}

\* Guild members: u1, u2 are people who can read the poll's channel, u3 is a
\* person who cannot (any more), b1 is a bot.
Members == {"u1", "u2", "u3", "b1"}
IsBot(m) == m = "b1"
CanRead(m) == m # "u3"

\* The members whose concurrent button clicks are explored.
Voters == {"u1", "u2"}

\* Button emojis of a presence poll (PresencePollView) and of a custom poll
\* (PollView: the first entries of Config.EMOJIS).
Present == "present"
Waiting == "waiting"
Absent == "absent"
PresenceEmojis == {Present, Waiting, Absent}
OptionEmojis == {"A", "B", "C"}

\* One task per incoming interaction.
Handlers == {"h1", "h2"}

\* on_ready starts a reminder_scheduler task each time it fires, and it fires
\* again after a reconnect.
Tasks == {"t1", "t2"}

VARIABLES
    now,        \* the wall clock, in hours
    poll,       \* poll[p]: the row of polls with id p (immutable columns)
    polls,      \* ids that have a row in polls
    votes,      \* the votes relation: a set of <<poll_id, user_id, emoji>>
    reminders,  \* reminders_sent: (poll_id, reminder_type) -> number of rows
    view,       \* view[p]: the poll message carries its voting buttons
    vh,         \* vh[h]: the running handle_vote call of task h
    st,         \* st[t]: the running send_reminders tick of scheduler task t
    hist,       \* history: the last two handle_vote calls that returned
    batches,    \* history: (poll_id, reminder_type) -> batches dispatched
    lastBatch,  \* history: the batch dispatched last
    evaluated,  \* history: the (poll_id, reminder_type) whose time condition
                \* held in an evaluation that has completed and whose
                \* lookup in reminders_sent did not fail
    msg,        \* msg[p]: the message of poll p exists on the platform
    dt,         \* the daily_19h_scheduler task and its running tick
    rs,         \* on_ready: the run of restore_poll_views after a restart,
                \* with its history: when it read the clock, the polls its
                \* query returned, and those whose buttons it attached
                \* again, which it deleted and on which it failed
    cp,         \* the running (or last) DateModal submission
    notFound,   \* history: the polls whose message an operation found
                \* missing and finished handling without a store error
    tickLog     \* history of the scheduler tick that started last: the polls
                \* its query returned, the polls evaluated so far, in order,
                \* those whose evaluation met an error, whether the tick
                \* as a whole raised, and the lookups in reminders_sent
                \* that failed, each with the batches dispatched and the
                \* rows recorded for its type at that time

restVars == <<msg, dt, rs, cp, notFound>>
vars == <<now, poll, polls, votes, reminders, view, vh, st, hist,
          batches, lastBatch, evaluated, msg, dt, rs, cp, notFound, tickLog>>
schedVars == <<st, batches, lastBatch, evaluated, msg, dt, rs, cp, notFound, tickLog>>

\* ------------------------------------------------------------- polls -----
Emojis(p) == IF poll[p].is_presence THEN PresenceEmojis ELSE OptionEmojis

\* The rows of one voter on one poll:
\*   SELECT emoji FROM votes WHERE poll_id=$1 AND user_id=$2
ExistingEmojis(v, p, u) == {e \in PresenceEmojis \cup OptionEmojis : <<p, u, e>> \in v}

\* Mutant of DeleteOne: the WHERE clause lacks the emoji.
DeleteOneWithoutEmoji(v, p, u, e) == {r \in v : ~(r[1] = p /\ r[2] = u)}

\* DELETE FROM votes WHERE poll_id=$1 AND user_id=$2 AND emoji=$3
DeleteOne(v, p, u, e) == v \ {<<p, u, e>>}

\* Mutant of DeleteAll: the WHERE clause compares the user the wrong way.
DeleteAllOfOthers(v, p, u) == {r \in v : ~(r[1] = p /\ r[2] # u)}

\* DELETE FROM votes WHERE poll_id=$1 AND user_id=$2
DeleteAll(v, p, u) == {r \in v : ~(r[1] = p /\ r[2] = u)}

\* INSERT INTO votes ... ON CONFLICT DO NOTHING (primary key is the triple)
InsertVote(v, p, u, e) == v \cup {<<p, u, e>>}

\* Mutant of ForeignKeyHolds: poll_id is a plain INTEGER column.
ForeignKeyNotChecked(p) == TRUE

\* poll_id INTEGER REFERENCES polls(id), of votes and of reminders_sent: an
\* INSERT whose poll_id has no row in polls raises.
ForeignKeyHolds(p) == p \in polls

\* self.allow_multiple of the view: PresencePollView passes False, PollView
\* passes the poll's allow_multiple.
AllowMultiple(p) == IF poll[p].is_presence THEN FALSE ELSE poll[p].allow_multiple

\* Mutant of ReplacesOldVotes: the condition is inverted.
ReplacesOldVotesInverted(p) == AllowMultiple(p)

\* `if not self.allow_multiple:` the branch that deletes the old votes.
ReplacesOldVotes(p) == ~AllowMultiple(p)

\* Mutant of IsToggleOff: the emoji is looked up in the fetched records, not
\* in their emoji column, and is never found.
IsToggleOffNever(e, existing) == FALSE

\* `if emoji in existing_emojis:` the toggle-off branch.
IsToggleOff(e, existing) == e \in existing

IdleHandler == [pc |-> "idle", poll |-> 0, user |-> "", emoji |-> "", late |-> FALSE]

\* `if poll["max_date"] and now >= poll["max_date"]` of check_and_send_reminders:
\* the voting deadline has passed.
DeadlinePassed(p, t) == poll[p].max_date # NoDate /\ t >= poll[p].max_date

\* ------------------------------------------------------- reminders -----
\* reminder_type values: 'closed', 'j_minus_2_waiting', 'j_minus_1_waiting'
\* and f"weekly_waiting_{week}", written <<"weekly_waiting", week>>.
Closed == <<"closed", 0>>
JMinus2 == <<"j_minus_2_waiting", 0>>
JMinus1 == <<"j_minus_1_waiting", 0>>
Weekly(n) == <<"weekly_waiting", n>>
WeeklyKinds == {Weekly(n) : n \in 1..MaxWeeks}
\* f"non_voters_day_{days_since_creation}"
NonVoters(d) == <<"non_voters_day", d>>
NonVoterKinds == {NonVoters(d) : d \in 1..MaxDays}
Kinds == {Closed, JMinus2, JMinus1} \cup WeeklyKinds \cup NonVoterKinds

DateOf(t) == t \div 24
HourOf(t) == t % 24

\* Mutant of InJMinus1Window: the bounds of the window are exclusive.
InJMinus1WindowExclusive(p, t) ==
    /\ REMINDER_J_MINUS_1_MIN < poll[p].max_date - t
    /\ poll[p].max_date - t < REMINDER_J_MINUS_1_MAX

\* timedelta(hours=MIN) <= time_until_deadline <= timedelta(hours=MAX)
InJMinus2Window(p, t) ==
    /\ REMINDER_J_MINUS_2_MIN <= poll[p].max_date - t
    /\ poll[p].max_date - t <= REMINDER_J_MINUS_2_MAX
InJMinus1Window(p, t) ==
    /\ REMINDER_J_MINUS_1_MIN <= poll[p].max_date - t
    /\ poll[p].max_date - t <= REMINDER_J_MINUS_1_MAX

\* weeks_since_creation = int(poll_age.days / 7)
WeeksSinceCreation(p, t) == ((t - poll[p].created_at) \div 24) \div 7

\* target_week_date.date() == now.date() and 18 <= now.hour <= 20
WeeklyDue(p, week, t) ==
    /\ DateOf(poll[p].created_at + week * 168) = DateOf(t)
    /\ 18 <= HourOf(t) /\ HourOf(t) <= 20

\* The branch of check_and_send_reminders taken for poll p at time t: the
\* reminder types it goes on to look up, in order.
KindsToCheck(p, t) ==
    IF DeadlinePassed(p, t) THEN <<Closed>>
    ELSE IF poll[p].max_date # NoDate
         THEN IF InJMinus2Window(p, t) THEN <<JMinus2>>
              ELSE IF InJMinus1Window(p, t) THEN <<JMinus1>>
              ELSE <<>>
         ELSE IF poll[p].is_presence
              THEN [w \in 1..WeeksSinceCreation(p, t) |-> Weekly(w)]
              ELSE <<>>

\* Whether the time condition of reminder type k holds for p at time t.
TimeCondition(p, k, t) ==
    IF k \in WeeklyKinds THEN WeeklyDue(p, k[2], t) ELSE TRUE

\* Mutant of RecordedKind: the J-2 branch records the type of close_poll.
RecordedKindMixedUp(k) == IF k = JMinus2 THEN Closed ELSE k

\* The reminder_type that is recorded once the reminder of type k was sent.
RecordedKind(k) == k

\* Mutant of AlreadySent: a failing lookup answers False.
AlreadySentUnlessError(p, k, fails) == ~fails /\ reminders[<<p, k>>] > 0

\* _reminder_already_sent: a row of that type exists; a failing lookup
\* answers True.
AlreadySent(p, k, fails) == fails \/ reminders[<<p, k>>] > 0

\* Mutant of WaitingRecipients: the rows are filtered on the wrong emoji.
WaitingRecipientsWrongEmoji(v, p) ==
    {m \in Members : ~IsBot(m) /\ <<p, m, Present>> \in v}

\* send_waiting_reminder: the members that get a direct message are the
\* users with a Waiting row who are members of the guild and not bots.
WaitingRecipients(v, p) ==
    {m \in Members : ~IsBot(m) /\ <<p, m, Waiting>> \in v}

\* Mutant of ToNotify: a Waiting voter counts as having voted.
ToNotifyWithoutWaiting(v, p) ==
    {m \in Members :
        /\ ~IsBot(m)
        /\ CanRead(m)
        /\ \A e \in PresenceEmojis \cup OptionEmojis : <<p, m, e>> \notin v}

\* close_poll: to_notify, the members who are not bots, can read the channel
\* and have no row or, in a presence poll, a Waiting row.
ToNotify(v, p) ==
    {m \in Members :
        /\ ~IsBot(m)
        /\ CanRead(m)
        /\ \/ \A e \in PresenceEmojis \cup OptionEmojis : <<p, m, e>> \notin v
           \/ poll[p].is_presence /\ <<p, m, Waiting>> \in v}

\* The daily task between two cycles, restore_poll_views not running, and no
\* DateModal submitted yet.
IdleDaily == [pc |-> "idle", target |-> 0, tnow |-> 0, todo |-> {}, poll |-> 0, day |-> 0]
NoTick == [loop |-> "none", tnow |-> 0, queried |-> {}, visited |-> <<>>, failed |-> {},
           raised |-> FALSE, prev |-> FALSE, unknown |-> {}]
Ready == [pc |-> "ready", todo |-> {}, tnow |-> 0, queried |-> {},
          restored |-> {}, dropped |-> {}, failed |-> {}]
IdleCreate == [pc |-> "idle", poll |-> 0, event_in |-> <<"">>, max_in |-> <<"">>,
               event |-> 0, max |-> NoDate, vnow |-> 0,
               is_presence |-> FALSE, allow_multiple |-> FALSE,
               command |-> "none", options |-> 0]

IdleTask == [pc |-> "idle", tnow |-> 0, todo |-> {}, poll |-> 0, kinds |-> <<>>,
             closedAtStart |-> {}]
NoBatch == [poll |-> 0, kind |-> <<"none", 0>>, to |-> {}, fetched |-> FALSE, seen |-> {},
            attempted |-> {}, delivered |-> {}]

\* Mutant of Attempted: the first delivery that fails ends the loop, and the
\* loop meets the members whose delivery fails first.
AttemptedUntilFailure(to, closed) == IF to \cap closed = {} THEN to ELSE to \cap closed

\* The loops `for member in to_notify` and `for user_id in waiting_user_ids`:
\* member.send is called for every member, discord.Forbidden and every
\* other exception of one call being caught inside the loop.  closed are
\* the members for whom member.send raises.
Attempted(to, closed) == to
Delivered(to, closed) == Attempted(to, closed) \ closed

\* The record of a batch: the poll, the reminder type, whether the fetches
\* succeeded, the votes that were read, the members to notify, those for
\* whom member.send was called and those for whom it returned.
Batch(p, k, found, seen, to, closed) ==
    [poll |-> p, kind |-> k, fetched |-> found, seen |-> seen, to |-> to,
     attempted |-> Attempted(to, closed), delivered |-> Delivered(to, closed)]

Bump(n) == IF n < MaxCount THEN n + 1 ELSE n

\* send_reminders reads the clock and selects the polls; on_ready creates the
\* scheduler tasks once restore_poll_views has returned.  closedAtStart is
\* history: the polls whose 'closed' row existed when the tick started.
TickStart(t) ==
    /\ st[t].pc = "idle"
    /\ rs.pc = "ready"
    /\ st' = [st EXCEPT ![t] = [pc |-> "eval", tnow |-> now, todo |-> polls,
                                poll |-> 0, kinds |-> <<>>,
                                closedAtStart |-> {p \in polls : reminders[<<p, Closed>>] > 0}]]
    /\ UNCHANGED <<now, poll, polls, votes, reminders, view, vh, hist,
                   batches, lastBatch, evaluated, restVars>>

\* The loop of send_reminders: check_and_send_reminders is called for the
\* next poll and chooses its branch; after the last poll the tick is over.
TickEval(t) ==
    /\ st[t].pc = "eval"
    /\ \/ /\ st[t].todo = {}
          /\ st' = [st EXCEPT ![t] = IdleTask]
       \/ \E p \in st[t].todo :
            LET ks == KindsToCheck(p, st[t].tnow) IN
            st' = [st EXCEPT ![t].todo = st[t].todo \ {p},
                             ![t].poll = p,
                             ![t].kinds = ks,
                             ![t].pc = IF ks = <<>> THEN "eval" ELSE "check"]
    /\ UNCHANGED <<now, poll, polls, votes, reminders, view, vh, hist,
                   batches, lastBatch, evaluated, restVars>>

\* The evaluation of the first of st[t].kinds is over: the weekly loop goes
\* on to the next week, the other branches return to send_reminders.
Advance(t, s) ==
    [s EXCEPT ![t].kinds = Tail(st[t].kinds),
              ![t].pc = IF Len(st[t].kinds) > 1 THEN "check" ELSE "eval"]

Evaluated(t) ==
    IF TimeCondition(st[t].poll, Head(st[t].kinds), st[t].tnow)
    THEN evaluated \cup {<<st[t].poll, Head(st[t].kinds)>>}
    ELSE evaluated

\* _reminder_already_sent for the reminder type at hand, then the time
\* condition of the weekly reminder.
TickCheck(t, fails) ==
    /\ st[t].pc = "check"
    /\ LET p == st[t].poll
           k == Head(st[t].kinds)
       IN IF AlreadySent(p, k, fails) \/ ~TimeCondition(p, k, st[t].tnow)
          THEN /\ st' = Advance(t, st)
               /\ evaluated' = IF fails THEN evaluated ELSE Evaluated(t)
          ELSE /\ st' = [st EXCEPT ![t].pc = IF k = Closed THEN "close" ELSE "send"]
               /\ UNCHANGED evaluated
    /\ UNCHANGED <<now, poll, polls, votes, reminders, view, vh, hist, batches, lastBatch,
                   restVars>>

\* What fetching the message of p gives: "none" when the channel is not
\* cached, the platform raises or the votes cannot be read (answers = FALSE),
\* "missing" when channel.fetch_message raises discord.NotFound, "found"
\* otherwise.
FetchMessage(p, answers) ==
    IF ~answers THEN "none" ELSE IF msg[p] THEN "found" ELSE "missing"

\* send_waiting_reminder: the channel, the message and the votes are fetched
\* and the direct messages are sent; when a fetch fails or the message is
\* missing the function returns and nothing is sent.  closed are the
\* members who cannot be reached by direct message.
TickSend(t, fetched, closed) ==
    /\ st[t].pc = "send"
    /\ LET p == st[t].poll
           k == Head(st[t].kinds)
           found == FetchMessage(p, fetched) = "found"
       IN /\ batches' = [batches EXCEPT ![<<p, k>>] = Bump(@)]
          /\ lastBatch' = Batch(p, k, found, votes,
                                IF found THEN WaitingRecipients(votes, p) ELSE {}, closed)
          /\ notFound' = IF FetchMessage(p, fetched) = "missing"
                         THEN notFound \cup {p} ELSE notFound
    /\ st' = [st EXCEPT ![t].pc = "mark"]
    /\ UNCHANGED <<now, poll, polls, votes, reminders, view, vh, hist, evaluated,
                   msg, dt, rs, cp>>

\* close_poll after its lookup: when the channel or the message cannot be
\* fetched it returns, and when the votes cannot be fetched the error is
\* logged; otherwise, if there is somebody to notify, the buttons are
\* removed and the direct messages sent, and 'closed' is recorded next.
TickClose(t, fetched, closed) ==
    /\ st[t].pc = "close"
    /\ LET p == st[t].poll IN
       /\ notFound' = IF FetchMessage(p, fetched) = "missing"
                      THEN notFound \cup {p} ELSE notFound
       /\ IF FetchMessage(p, fetched) = "found"
          THEN /\ view' = [view EXCEPT ![p] = @ /\ ToNotify(votes, p) = {}]
               /\ batches' = [batches EXCEPT ![<<p, Closed>>] = Bump(@)]
               /\ lastBatch' = Batch(p, Closed, TRUE, votes, ToNotify(votes, p), closed)
               /\ st' = [st EXCEPT ![t].pc = "mark"]
               /\ UNCHANGED evaluated
          ELSE /\ st' = Advance(t, st)
               /\ evaluated' = Evaluated(t)
               /\ UNCHANGED <<view, batches, lastBatch>>
    /\ UNCHANGED <<now, poll, polls, votes, reminders, vh, hist, msg, dt, rs, cp>>

\* _mark_reminder_sent: the INSERT into reminders_sent, which has no key; a
\* failing INSERT (the store raises, or the poll's row is gone) is logged
\* and nothing else.
TickMark(t, fails) ==
    /\ st[t].pc = "mark"
    /\ LET p == st[t].poll
           k == RecordedKind(Head(st[t].kinds))
       IN reminders' = IF fails \/ ~ForeignKeyHolds(p) THEN reminders
                       ELSE [reminders EXCEPT ![<<p, k>>] = Bump(@)]
    /\ st' = Advance(t, st)
    /\ evaluated' = Evaluated(t)
    /\ UNCHANGED <<now, poll, polls, votes, view, vh, hist, batches, lastBatch, restVars>>

\* Mutant of AfterPollError: the try block is around the loop and not inside.
AfterPollErrorAborts(task) == [task EXCEPT !.pc = "eval", !.todo = {}]

\* `except Exception` inside the loop over the polls, in send_reminders and in
\* send_non_voters_biweekly_reminders: the error is logged and the loop goes
\* on with the next poll.
AfterPollError(task) == [task EXCEPT !.pc = "eval"]

\* An exception leaves check_and_send_reminders.
TickPollError(t) ==
    /\ st[t].pc \in {"check", "send", "close", "mark"}
    /\ st' = [st EXCEPT ![t] = AfterPollError(@)]
    /\ UNCHANGED <<now, poll, polls, votes, reminders, view, vh, hist,
                   batches, lastBatch, evaluated, restVars>>

\* ------------------------------------------------- daily scheduler -----
\* Mutant of OpenPolls: SELECT * FROM polls.
OpenPollsAll(t) == polls

\* WHERE max_date IS NULL OR max_date > $1: the polls that are open at t.
OpenPolls(t) == {p \in polls : poll[p].max_date = NoDate \/ poll[p].max_date > t}

\* target = now.replace(hour=DAILY_REMINDER_HOUR, ...), a day later when
\* now.hour >= DAILY_REMINDER_HOUR.
WakeTarget(t) ==
    IF HourOf(t) >= DAILY_REMINDER_HOUR
    THEN (DateOf(t) + 1) * 24 + DAILY_REMINDER_HOUR
    ELSE DateOf(t) * 24 + DAILY_REMINDER_HOUR

\* datetime.now(Config.TZ) at instant t, in hours of the local calendar:
\* Config.TZ is Europe/Paris, where the clocks are put back an hour at
\* instant DstEnd (3:00 of day 4 reads 2:00 again).  Every other
\* specification ends before.
LocalTime(t) == IF t < DstEnd THEN t ELSE t - 1

\* wait_seconds = (target - now).total_seconds(): target and now carry the
\* same tzinfo, so the difference is taken on the local calendar.
WaitHours(t) == WakeTarget(LocalTime(t)) - LocalTime(t)

\* days_since_creation = poll_age.days
DaysSinceCreation(p, t) == (t - poll[p].created_at) \div 24

\* days_since_creation > 0 and days_since_creation % 2 == 0
NudgeDue(d) == d > 0 /\ d % 2 = 0

\* Mutant of NonVotersToNotify: the Waiting voters count as having voted.
NonVotersToNotifyNoWaiting(v, p) ==
    {m \in Members :
        /\ ~IsBot(m)
        /\ CanRead(m)
        /\ \A e \in PresenceEmojis \cup OptionEmojis : <<p, m, e>> \notin v}

\* send_non_voters_reminder: to_notify, the members who are not bots, can
\* read the channel and have no row or, in a presence poll, a Waiting row.
NonVotersToNotify(v, p) ==
    {m \in Members :
        /\ ~IsBot(m)
        /\ CanRead(m)
        /\ \/ \A e \in PresenceEmojis \cup OptionEmojis : <<p, m, e>> \notin v
           \/ poll[p].is_presence /\ <<p, m, Waiting>> \in v}

\* daily_19h_scheduler computes its wake target and goes to sleep; target
\* is the instant at which asyncio.sleep(wait_seconds) ends.
DailySleep ==
    /\ dt.pc = "idle"
    /\ rs.pc = "ready"
    /\ dt' = [dt EXCEPT !.pc = "sleep", !.target = now + WaitHours(now)]
    /\ UNCHANGED <<now, poll, polls, votes, reminders, view, vh, st, hist,
                   batches, lastBatch, evaluated, msg, rs, cp, notFound>>

\* The sleep is over: send_non_voters_biweekly_reminders reads the clock and
\* selects the open polls; when the SELECT raises, the error is logged.
DailyWake(selected) ==
    /\ dt.pc = "sleep"
    /\ dt.target <= now /\ now <= dt.target + MaxTickLag
    /\ dt' = [dt EXCEPT !.pc = "eval", !.tnow = LocalTime(now),
                        !.todo = IF selected THEN OpenPolls(LocalTime(now)) ELSE {}]
    /\ UNCHANGED <<now, poll, polls, votes, reminders, view, vh, st, hist,
                   batches, lastBatch, evaluated, msg, rs, cp, notFound>>

\* The loop of send_non_voters_biweekly_reminders: the age of the next poll
\* decides whether its reminder is looked up; after the last poll the
\* scheduler starts its next cycle.
DailyEval ==
    /\ dt.pc = "eval"
    /\ \/ /\ dt.todo = {}
          /\ dt' = IdleDaily
       \/ \E p \in dt.todo :
            LET d == DaysSinceCreation(p, dt.tnow) IN
            dt' = [dt EXCEPT !.todo = dt.todo \ {p}, !.poll = p, !.day = d,
                             !.pc = IF NudgeDue(d) /\ d <= MaxDays THEN "check" ELSE "eval"]
    /\ UNCHANGED <<now, poll, polls, votes, reminders, view, vh, st, hist,
                   batches, lastBatch, evaluated, msg, rs, cp, notFound>>

\* _reminder_already_sent for non_voters_day_<d>.
DailyCheck(fails) ==
    /\ dt.pc = "check"
    /\ dt' = [dt EXCEPT !.pc = IF AlreadySent(dt.poll, NonVoters(dt.day), fails)
                               THEN "eval" ELSE "send"]
    /\ UNCHANGED <<now, poll, polls, votes, reminders, view, vh, st, hist,
                   batches, lastBatch, evaluated, msg, rs, cp, notFound>>

\* send_non_voters_reminder: the channel, the message and the votes are
\* fetched and the direct messages are sent; when a fetch fails or the
\* message is missing the function returns and nothing is sent.
DailySend(fetched, closed) ==
    /\ dt.pc = "send"
    /\ LET p == dt.poll
           k == NonVoters(dt.day)
           found == FetchMessage(p, fetched) = "found"
       IN /\ batches' = [batches EXCEPT ![<<p, k>>] = Bump(@)]
          /\ lastBatch' = Batch(p, k, found, votes,
                                IF found THEN NonVotersToNotify(votes, p) ELSE {}, closed)
          /\ notFound' = IF FetchMessage(p, fetched) = "missing"
                         THEN notFound \cup {p} ELSE notFound
    /\ dt' = [dt EXCEPT !.pc = "mark"]
    /\ UNCHANGED <<now, poll, polls, votes, reminders, view, vh, st, hist, evaluated,
                   msg, rs, cp>>

\* _mark_reminder_sent for non_voters_day_<d>.
DailyMark(fails) ==
    /\ dt.pc = "mark"
    /\ reminders' = IF fails \/ ~ForeignKeyHolds(dt.poll) THEN reminders
                    ELSE [reminders EXCEPT ![<<dt.poll, NonVoters(dt.day)>>] = Bump(@)]
    /\ dt' = [dt EXCEPT !.pc = "eval"]
    /\ UNCHANGED <<now, poll, polls, votes, view, vh, st, hist, batches, lastBatch,
                   evaluated, msg, rs, cp, notFound>>

\* An exception is raised in the body of the loop.
DailyPollError ==
    /\ dt.pc \in {"check", "send", "mark"}
    /\ dt' = AfterPollError(dt)
    /\ UNCHANGED <<now, poll, polls, votes, reminders, view, vh, st, hist,
                   batches, lastBatch, evaluated, msg, rs, cp, notFound>>

\* --------------------------------------------------- failing ticks -----
\* Mutant of AfterTickError: the scheduler has no try block around its tick
\* and the exception ends the task.
AfterTickErrorStops(task) == [task EXCEPT !.pc = "stopped"]

\* `except Exception` around the tick in reminder_scheduler and in
\* daily_19h_scheduler: the error is logged and the `while` loop goes on.
AfterTickError(task) == task

\* send_reminders reads the clock and its SELECT raises: the error is logged
\* by send_reminders itself and the loop over the polls is not entered.
TickQueryError(t) ==
    /\ st[t].pc = "idle"
    /\ rs.pc = "ready"
    /\ st' = [st EXCEPT ![t] = [IdleTask EXCEPT !.pc = "eval", !.tnow = now]]
    /\ UNCHANGED <<now, poll, polls, votes, reminders, view, vh, hist,
                   batches, lastBatch, evaluated, restVars>>

\* An exception leaves send_reminders and reaches reminder_scheduler, which
\* logs it and goes to sleep until the next tick.
TickRaises(t) ==
    /\ st[t].pc \in {"eval", "check", "send", "close", "mark"}
    /\ st' = [st EXCEPT ![t] = AfterTickError(IdleTask)]
    /\ UNCHANGED <<now, poll, polls, votes, reminders, view, vh, hist,
                   batches, lastBatch, evaluated, restVars>>

\* An exception leaves send_non_voters_biweekly_reminders and reaches
\* daily_19h_scheduler, which logs it and sleeps 3600 seconds before its
\* next cycle.
DailyRaises ==
    /\ dt.pc \in {"eval", "check", "send", "mark"}
    /\ dt' = AfterTickError([IdleDaily EXCEPT !.pc = "backoff", !.target = now + 1])
    /\ UNCHANGED <<now, poll, polls, votes, reminders, view, vh, st, hist,
                   batches, lastBatch, evaluated, msg, rs, cp, notFound>>

\* The sleep of 3600 seconds is over and the loop starts its next cycle.
DailyBackoffOver ==
    /\ dt.pc = "backoff"
    /\ dt.target <= now
    /\ dt' = IdleDaily
    /\ UNCHANGED <<now, poll, polls, votes, reminders, view, vh, st, hist,
                   batches, lastBatch, evaluated, msg, rs, cp, notFound>>

\* ---------------------------------------------------- poll creation -----
\* What is typed into a field of the DateModal: nothing, <<"">>; a text that
\* is no date, <<"bad">>; JJ/MM/AAAA, <<"day", d>>; or JJ/MM/AAAA-HH:mm,
\* <<"time", d, h>>.
DateInputs ==
    {<<"bad">>} \cup {<<"day", d>> : d \in 0..MaxInputDay}
                \cup {<<"time", d, h>> : d \in 0..MaxInputDay, h \in {12, 13}}

\* _parse_date: strptime raises ValueError on a text that matches neither
\* format; a date without time is its midnight.
Parses(x) == x[1] \in {"day", "time"}
ParseDate(x) == IF x[1] = "time" THEN x[2] * 24 + x[3] ELSE x[2] * 24

\* max_dt = self._parse_date(...) if self.max_date.value.strip() else None
ParseMaxDate(x) == IF x = <<"">> THEN NoDate ELSE ParseDate(x)

\* Mutant of ValidateDates: the deadline is not compared with the event.
ValidateDatesNoOrder(event_dt, max_dt, t) ==
    /\ ~(event_dt < t)
    /\ ~((event_dt - t) \div 24 > MAX_EVENT_DAYS_AHEAD)
    /\ max_dt # NoDate => ~(max_dt < t)

\* _validate_dates returns None: no error message.
ValidateDates(event_dt, max_dt, t) ==
    /\ ~(event_dt < t)
    /\ ~((event_dt - t) \div 24 > MAX_EVENT_DAYS_AHEAD)
    /\ max_dt # NoDate => ~(max_dt < t) /\ ~(max_dt > event_dt)

\* The id the next INSERT INTO polls returns (SERIAL), while one is left.
FreeIds == {p \in PollIds : p \notin polls /\ ~msg[p]}
NextId == CHOOSE p \in FreeIds : \A q \in FreeIds : p <= q

\* Mutant of OptionsAccepted: one choice is enough.
OptionsAcceptedOne(n) == n >= 1

\* poll_command goes on to the modal of a custom poll: not len(options) < 2.
OptionsAccepted(n) == ~(n < 2)

\* poll_command with n of its choix parameters carrying text (options is
\* the list of these): without any, the DateModal of a presence poll is
\* shown, with is_presence=True and allow_multiple=False; with one, the
\* user is told that two choices are needed; otherwise the DateModal of a
\* custom poll is shown with allow_multiple = not single.
PollCommand(n, single) ==
    /\ cp.pc \in {"idle", "rejected", "failed", "done"}
    /\ rs.pc = "ready"
    /\ cp' = IF n = 0
             THEN [IdleCreate EXCEPT !.command = "modal", !.is_presence = TRUE]
             ELSE IF ~OptionsAccepted(n)
             THEN [IdleCreate EXCEPT !.command = "refused", !.options = n]
             ELSE [IdleCreate EXCEPT !.command = "modal", !.options = n,
                                     !.allow_multiple = ~single]
    /\ UNCHANGED <<now, poll, polls, votes, reminders, view, vh, st, hist, batches,
                   lastBatch, evaluated, msg, dt, rs, notFound, tickLog>>

\* DateModal.on_submit: the two fields are parsed and validated; on an error
\* the user gets its message and nothing else happens, otherwise create_poll
\* is called.  presence and multiple are what poll_command gave the modal.
Submit(event_in, max_in, presence, multiple) ==
    /\ cp.pc = "idle" /\ cp.command = "modal"
    /\ rs.pc = "ready"
    /\ FreeIds # {}
    /\ LET parsed == Parses(event_in) /\ (max_in = <<"">> \/ Parses(max_in))
           accepted == parsed /\ ValidateDates(ParseDate(event_in), ParseMaxDate(max_in), now)
       IN cp' = [pc |-> IF accepted THEN "send" ELSE "rejected",
                 poll |-> NextId, event_in |-> event_in, max_in |-> max_in,
                 event |-> IF parsed THEN ParseDate(event_in) ELSE 0,
                 max |-> IF parsed THEN ParseMaxDate(max_in) ELSE NoDate,
                 vnow |-> now, is_presence |-> presence, allow_multiple |-> multiple,
                 command |-> cp.command, options |-> cp.options]
    /\ UNCHANGED <<now, poll, polls, votes, reminders, view, vh, st, hist, batches,
                   lastBatch, evaluated, msg, dt, rs, notFound, tickLog>>

\* create_poll sends the message with the buttons of poll id 0; when the
\* platform raises, the error is logged.
CreateSend(ok) ==
    /\ cp.pc = "send"
    /\ msg' = [msg EXCEPT ![cp.poll] = ok]
    /\ cp' = [cp EXCEPT !.pc = IF ok THEN "insert" ELSE "failed"]
    /\ UNCHANGED <<now, poll, polls, votes, reminders, view, vh, st, hist, batches,
                   lastBatch, evaluated, dt, rs, notFound, tickLog>>

\* INSERT INTO polls ... RETURNING id; created_at is NOW().  When the store
\* raises, the user is told and the function returns.
CreateInsert(ok) ==
    /\ cp.pc = "insert"
    /\ polls' = IF ok THEN polls \cup {cp.poll} ELSE polls
    /\ poll' = IF ok
               THEN [poll EXCEPT ![cp.poll] =
                        [is_presence |-> cp.is_presence, allow_multiple |-> cp.allow_multiple,
                         max_date |-> cp.max, created_at |-> now, event_date |-> cp.event,
                         options |-> cp.options]]
               ELSE poll
    /\ cp' = [cp EXCEPT !.pc = IF ok THEN "display" ELSE "failed"]
    /\ UNCHANGED <<now, votes, reminders, view, vh, st, hist, batches,
                   lastBatch, evaluated, msg, dt, rs, notFound, tickLog>>

\* update_poll_display, then message.edit(view=view) attaches the buttons
\* that carry the poll's id; when the edit raises, the error is logged.
CreateDisplay(ok) ==
    /\ cp.pc = "display"
    /\ view' = [view EXCEPT ![cp.poll] = ok]
    /\ cp' = [cp EXCEPT !.pc = IF ok THEN "done" ELSE "failed"]
    /\ UNCHANGED <<now, poll, polls, votes, reminders, vh, st, hist, batches,
                   lastBatch, evaluated, msg, dt, rs, notFound, tickLog>>

\* ------------------------------------------ restart and lost messages -----

\* DELETE FROM polls WHERE id=$1: votes and reminders_sent reference polls
\* with ON DELETE CASCADE.
VotesWithoutPoll(v, p) == {r \in v : r[1] # p}
RemindersWithoutPoll(rem, p) == [k \in DOMAIN rem |-> IF k[1] = p THEN 0 ELSE rem[k]]

\* Somebody deletes the message of poll p on the platform; its buttons go
\* with it.
MessageDeleted(p) ==
    /\ msg[p]
    /\ msg' = [msg EXCEPT ![p] = FALSE]
    /\ view' = [view EXCEPT ![p] = FALSE]
    /\ UNCHANGED <<now, poll, polls, votes, reminders, vh, st, hist, batches, lastBatch,
                   evaluated, dt, rs, cp, notFound, tickLog>>

\* restore_poll_views up to its loop: it reads the clock and SELECTs the open
\* polls; when the SELECT raises, the error is logged and the loop is not
\* entered.
Restoring(selected) ==
    [Ready EXCEPT !.pc = "restoring", !.tnow = now,
                  !.todo = IF selected THEN OpenPolls(now) ELSE {},
                  !.queried = IF selected THEN OpenPolls(now) ELSE {}]

\* Mutant of RestoreRest: the try block is around the loop and not inside.
RestoreRestAborts(todo, p, failure) == IF failure THEN {} ELSE todo \ {p}

\* The polls restore_poll_views still has to take once it is done with p:
\* `continue`, or `except Exception` inside the loop, which logs.
RestoreRest(todo, p, failure) == todo \ {p}

\* The process dies, whatever its tasks were doing, and is started again:
\* on_ready runs restore_poll_views up to its SELECT of the open polls.  When
\* the SELECT raises, the error is logged and no poll is restored.
Restart(selected) ==
    /\ vh' = [h \in Handlers |-> IdleHandler]
    /\ st' = [t \in Tasks |-> IdleTask]
    /\ dt' = IdleDaily
    /\ cp' = IdleCreate
    /\ tickLog' = NoTick
    /\ rs' = Restoring(selected)
    /\ UNCHANGED <<now, poll, polls, votes, reminders, view, hist, batches, lastBatch,
                   evaluated, msg, notFound>>

\* The connection to the platform is lost and made again: on_ready fires
\* once more and runs restore_poll_views while the tasks of the process go
\* on.
Reconnect(selected) ==
    /\ rs.pc = "ready"
    /\ rs' = Restoring(selected)
    /\ UNCHANGED <<now, poll, polls, votes, reminders, view, vh, st, hist, batches,
                   lastBatch, evaluated, msg, dt, cp, notFound, tickLog>>

\* The loop of restore_poll_views for poll p: without channel the poll is
\* skipped; when the message is missing the poll is deleted; otherwise the
\* buttons are attached again.  An exception (ok = FALSE: the DELETE or the
\* edit raises) is logged and the loop goes on.
RestoreOne(p, answers, ok) ==
    /\ rs.pc = "restoring"
    /\ p \in rs.todo
    /\ LET deleted == FetchMessage(p, answers) = "missing" /\ ok
           edited == FetchMessage(p, answers) = "found" /\ ok
       IN /\ rs' = [rs EXCEPT !.todo = RestoreRest(@, p, ~deleted /\ ~edited),
                              !.restored = IF edited THEN @ \cup {p} ELSE @,
                              !.dropped = IF deleted THEN @ \cup {p} ELSE @,
                              !.failed = IF deleted \/ edited THEN @ ELSE @ \cup {p}]
          /\ polls' = IF deleted THEN polls \ {p} ELSE polls
          /\ votes' = IF deleted THEN VotesWithoutPoll(votes, p) ELSE votes
          /\ reminders' = IF deleted THEN RemindersWithoutPoll(reminders, p) ELSE reminders
          /\ notFound' = IF deleted THEN notFound \cup {p} ELSE notFound
          /\ view' = IF edited THEN [view EXCEPT ![p] = TRUE] ELSE view
    /\ UNCHANGED <<now, poll, vh, st, hist, batches, lastBatch, evaluated, msg, dt, cp,
                   tickLog>>

\* restore_poll_views returns and on_ready creates the scheduler tasks.
RestoreDone ==
    /\ rs.pc = "restoring"
    /\ rs.todo = {}
    /\ rs' = Ready
    /\ UNCHANGED <<now, poll, polls, votes, reminders, view, vh, st, hist, batches,
                   lastBatch, evaluated, msg, dt, cp, notFound, tickLog>>

\* ------------------------------------------------------- handle_vote -----
\* A click on a button of poll p by u: the call starts and runs to its first
\* store access, the SELECT of the voter's rows, and branches on the result.
\* `late` is history: whether the deadline had passed when the call started.
VoteFetch(h, p, u, e) ==
    /\ vh[h].pc = "idle"
    /\ view[p]
    /\ e \in Emojis(p)
    /\ vh' = [vh EXCEPT ![h] =
                [pc |-> IF IsToggleOff(e, ExistingEmojis(votes, p, u)) THEN "delete_one"
                        ELSE IF ReplacesOldVotes(p) THEN "delete_all"
                        ELSE "insert",
                 poll |-> p, user |-> u, emoji |-> e,
                 late |-> DeadlinePassed(p, now)]]
    /\ UNCHANGED <<now, poll, polls, votes, reminders, view, schedVars>>

\* The toggle-off DELETE of the clicked emoji.
VoteDeleteOne(h) ==
    /\ vh[h].pc = "delete_one"
    /\ votes' = DeleteOne(votes, vh[h].poll, vh[h].user, vh[h].emoji)
    /\ vh' = [vh EXCEPT ![h].pc = "ack"]
    /\ UNCHANGED <<now, poll, polls, reminders, view, schedVars>>

\* The single-choice DELETE of all the voter's rows.
VoteDeleteAll(h) ==
    /\ vh[h].pc = "delete_all"
    /\ votes' = DeleteAll(votes, vh[h].poll, vh[h].user)
    /\ vh' = [vh EXCEPT ![h].pc = "insert"]
    /\ UNCHANGED <<now, poll, polls, reminders, view, schedVars>>

\* The INSERT of the clicked emoji; when the poll's row is gone the INSERT
\* raises asyncpg.PostgresError and the call logs, answers with the error
\* message and returns.
VoteInsert(h) ==
    /\ vh[h].pc = "insert"
    /\ IF ForeignKeyHolds(vh[h].poll)
       THEN /\ votes' = InsertVote(votes, vh[h].poll, vh[h].user, vh[h].emoji)
            /\ vh' = [vh EXCEPT ![h].pc = "ack"]
       ELSE /\ votes' = votes
            /\ vh' = [vh EXCEPT ![h] = IdleHandler]
    /\ UNCHANGED <<now, poll, polls, reminders, view, schedVars>>

\* The ephemeral acknowledgement, interaction.response.send_message: when it
\* raises discord.HTTPException the call logs and returns, otherwise it goes
\* on to update_poll_display.
VoteAck(h, acked) ==
    /\ vh[h].pc = "ack"
    /\ vh' = [vh EXCEPT ![h] = IF acked THEN [@ EXCEPT !.pc = "refresh"] ELSE IdleHandler]
    /\ UNCHANGED <<now, poll, polls, votes, reminders, view, schedVars>>

\* Mutant of UpdatePollDisplay: a refresh that fails rolls the voter's rows
\* back.
UpdatePollDisplayRollsBack(v, p, u, edited) == IF edited THEN v ELSE DeleteAll(v, p, u)

\* The votes relation after update_poll_display: the function SELECTs the
\* poll and its votes and edits the message, and logs every exception; it
\* has no statement that writes.
UpdatePollDisplay(v, p, u, edited) == v

\* update_poll_display at the end of handle_vote; `edited` tells whether the
\* message was edited or the refresh failed (message deleted, platform
\* error, poll row missing).  The call returns.
VoteRefresh(h, edited) ==
    /\ vh[h].pc = "refresh"
    /\ votes' = UpdatePollDisplay(votes, vh[h].poll, vh[h].user, edited)
    /\ vh' = [vh EXCEPT ![h] = IdleHandler]
    /\ UNCHANGED <<now, poll, polls, reminders, view, schedVars>>

\* A store access raises asyncpg.PostgresError: the call logs, answers with
\* the error message and returns.
VoteDbError(h) ==
    /\ vh[h].pc \in {"delete_one", "delete_all", "insert"}
    /\ vh' = [vh EXCEPT ![h] = IdleHandler]
    /\ UNCHANGED <<now, poll, polls, votes, reminders, view, schedVars>>

\* The clock advances by an hour.  A tick that is running started at most
\* MaxTickLag hours ago.
ClockTick(cap) ==
    /\ now < cap
    /\ \A t \in Tasks : st[t].pc # "idle" => now + 1 - st[t].tnow <= MaxTickLag
    /\ dt.pc \notin {"idle", "sleep", "backoff"} => LocalTime(now + 1) - dt.tnow <= MaxTickLag
    /\ now' = now + 1
    /\ UNCHANGED <<poll, polls, votes, reminders, view, vh, st, batches, lastBatch, evaluated,
                   restVars, tickLog>>

\* -------------------------------------------------- vote specifications --
\* poll_command creates a presence poll with allow_multiple = False.
ValidRow(r) == r.is_presence => ~r.allow_multiple

VotePollRows == {r \in [is_presence : BOOLEAN, allow_multiple : BOOLEAN,
                        max_date : {NoDate, 1}, created_at : {0}, event_date : {2},
                        options : {0, 3}] :
                    ValidRow(r) /\ (r.options = 0) = r.is_presence}

\* The state in which poll 1 exists with row r, its message carries the
\* buttons, nothing was voted or sent, and every task is at rest.
OnePoll(r) ==
    /\ poll = [p \in PollIds |-> IF p = 1 THEN r ELSE NoRow]
    /\ polls = {1}
    /\ reminders = [k \in PollIds \X Kinds |-> 0]
    /\ view = [p \in PollIds |-> p = 1]
    /\ msg = [p \in PollIds |-> p = 1]
    /\ vh = [h \in Handlers |-> IdleHandler]
    /\ st = [t \in Tasks |-> IdleTask]
    /\ dt = IdleDaily
    /\ rs = Ready
    /\ cp = IdleCreate
    /\ hist = <<>>
    /\ batches = [k \in PollIds \X Kinds |-> 0]
    /\ lastBatch = NoBatch
    /\ evaluated = {}
    /\ notFound = {}
    /\ tickLog = NoTick

InitVote ==
    /\ now = 0
    /\ \E r \in VotePollRows : OnePoll(r)
    /\ votes = {}

AllEmojis == PresenceEmojis \cup OptionEmojis

\* Concurrent interactions: every task runs its call step by step, the steps
\* of different calls interleaving at the store accesses.
ConcVoteFetch == \E h \in Handlers, p \in PollIds, u \in Voters, e \in AllEmojis :
    VoteFetch(h, p, u, e) /\ UNCHANGED hist
ConcVoteDeleteOne == \E h \in Handlers : VoteDeleteOne(h) /\ UNCHANGED hist
ConcVoteDeleteAll == \E h \in Handlers : VoteDeleteAll(h) /\ UNCHANGED hist
ConcVoteInsert == \E h \in Handlers : VoteInsert(h) /\ UNCHANGED hist
ConcVoteAck == \E h \in Handlers, acked \in BOOLEAN : VoteAck(h, acked) /\ UNCHANGED hist
ConcVoteRefresh == \E h \in Handlers, edited \in BOOLEAN : VoteRefresh(h, edited) /\ UNCHANGED hist
ConcVoteDbError == \E h \in Handlers : VoteDbError(h) /\ UNCHANGED hist
VoteClock == ClockTick(MaxVoteTime) /\ UNCHANGED hist

NextVote ==
    \/ ConcVoteFetch \/ ConcVoteDeleteOne \/ ConcVoteDeleteAll
    \/ ConcVoteInsert \/ ConcVoteAck \/ ConcVoteRefresh \/ ConcVoteDbError \/ VoteClock
SpecVote == InitVote /\ [][NextVote]_vars

\* Interactions handled one after the other: a call starts only when no other
\* call is running.  The history keeps, for each of the last two calls that
\* returned, what was clicked, the votes table when the call started, whether
\* every store access succeeded, the votes table when the last of them had
\* succeeded, and what became of the display refresh: "none" when
\* update_poll_display was not called, "edited" or "failed" when it was.
AllIdle == \A h \in Handlers : vh[h].pc = "idle"

Started(p, u, e) == [poll |-> p, user |-> u, emoji |-> e, before |-> votes, ok |-> FALSE,
                     after |-> votes, refresh |-> "none"]
Remember(r) == IF Len(hist) < 2 THEN Append(hist, r) ELSE <<hist[2], r>>
Returned(ok) == [hist EXCEPT ![Len(hist)].ok = ok, ![Len(hist)].after = votes]
Refreshed(edited) == [hist EXCEPT ![Len(hist)].refresh = IF edited THEN "edited" ELSE "failed"]

InitVoteSeq ==
    /\ InitVote
    /\ \A p \in PollIds : poll[p].max_date = NoDate

SeqVoteFetch == \E p \in PollIds, u \in Voters, e \in AllEmojis :
    AllIdle /\ VoteFetch("h1", p, u, e) /\ hist' = Remember(Started(p, u, e))
SeqVoteDeleteOne == VoteDeleteOne("h1") /\ UNCHANGED hist
SeqVoteDeleteAll == VoteDeleteAll("h1") /\ UNCHANGED hist
SeqVoteInsert == VoteInsert("h1") /\ UNCHANGED hist
SeqVoteAck == \E acked \in BOOLEAN : VoteAck("h1", acked) /\ hist' = Returned(TRUE)
SeqVoteRefresh == \E edited \in BOOLEAN : VoteRefresh("h1", edited) /\ hist' = Refreshed(edited)
SeqVoteDbError == VoteDbError("h1") /\ UNCHANGED hist

NextVoteSeq ==
    \/ SeqVoteFetch \/ SeqVoteDeleteOne \/ SeqVoteDeleteAll
    \/ SeqVoteInsert \/ SeqVoteAck \/ SeqVoteRefresh \/ SeqVoteDbError
SpecVoteSeq == InitVoteSeq /\ [][NextVoteSeq]_vars

\* --------------------------------------------- scheduler specifications --
\* The bot starts with a poll created earlier: one with a deadline 50 hours
\* ahead, or a poll without deadline created a week before day 0, at 18:00
\* or at 22:00.  The scheduler reads neither allow_multiple nor the buttons.
SchedPollRows == {r \in [is_presence : BOOLEAN, allow_multiple : {FALSE},
                         max_date : {NoDate, 50}, created_at : {-10, -150, -146},
                         event_date : {60}, options : {0, 3}] :
                    /\ (r.max_date = NoDate) = (r.created_at # -10)
                    /\ (r.options = 0) = r.is_presence}

\* The votes given before: u1 has no row or holds the second or the first
\* choice of the poll (Waiting is the second of a presence poll), or u1 and
\* u2 both hold the first; u3 voted Waiting before losing access to the
\* channel, or did not vote.
SecondEmoji(p) == IF poll[p].is_presence THEN Waiting ELSE "B"
FirstEmoji(p) == IF poll[p].is_presence THEN Present ELSE "A"
SchedVoteTables ==
    {a \cup b : a \in {{}} \cup {{<<1, "u1", e>>} : e \in {"A", "B", Present, Waiting}}
                          \cup {{<<1, "u1", e>>, <<1, "u2", e>>} : e \in {"A", Present}},
                b \in {{}} \cup {{<<1, "u3", e>>} : e \in {"B", Waiting}}}

InitSched ==
    /\ now = 0
    /\ \E r \in SchedPollRows : OnePoll(r)
    /\ votes \in {v \in SchedVoteTables :
                    \A r \in v : r[3] \in {FirstEmoji(r[1]), SecondEmoji(r[1])}}

SchedClock == ClockTick(MaxSchedTime) /\ UNCHANGED hist

\* Two scheduler tasks whose ticks overlap.
ConcTickStart == \E t \in Tasks : TickStart(t) /\ UNCHANGED tickLog
ConcTickEval == \E t \in Tasks : TickEval(t) /\ UNCHANGED tickLog
ConcTickCheck == \E t \in Tasks, fails \in BOOLEAN : TickCheck(t, fails) /\ UNCHANGED tickLog
ConcTickSend == \E t \in Tasks, fetched \in BOOLEAN : TickSend(t, fetched, {}) /\ UNCHANGED tickLog
ConcTickClose == \E t \in Tasks, fetched \in BOOLEAN : TickClose(t, fetched, {}) /\ UNCHANGED tickLog
ConcTickMark == \E t \in Tasks, fails \in BOOLEAN : TickMark(t, fails) /\ UNCHANGED tickLog

NextSched ==
    \/ ConcTickStart \/ ConcTickEval \/ ConcTickCheck
    \/ ConcTickSend \/ ConcTickClose \/ ConcTickMark \/ SchedClock
SpecSched == InitSched /\ [][NextSched]_vars

\* One scheduler task: every tick is over before the next starts.
SeqTickStart == TickStart("t1") /\ UNCHANGED tickLog
SeqTickEval == TickEval("t1") /\ UNCHANGED tickLog
SeqTickCheck == \E fails \in BOOLEAN : TickCheck("t1", fails) /\ UNCHANGED tickLog
SeqTickSend == \E fetched \in BOOLEAN : TickSend("t1", fetched, {}) /\ UNCHANGED tickLog
SeqTickClose == \E fetched \in BOOLEAN : TickClose("t1", fetched, {}) /\ UNCHANGED tickLog
SeqTickMark == \E fails \in BOOLEAN : TickMark("t1", fails) /\ UNCHANGED tickLog

NextSchedSeq ==
    \/ SeqTickStart \/ SeqTickEval \/ SeqTickCheck
    \/ SeqTickSend \/ SeqTickClose \/ SeqTickMark \/ SchedClock
SpecSchedSeq == InitSched /\ [][NextSchedSeq]_vars

\* ----------------------------------------------- restart specification --
\* One scheduler task whose store accesses succeed and whose platform
\* answers; the process may be restarted at any point and the message of the
\* poll may be deleted.  The poll is a presence poll on which u1 holds
\* Waiting.
InitRestart ==
    /\ InitSched
    /\ poll[1].is_presence
    /\ <<1, "u1", Waiting>> \in votes

CrashTickStart == TickStart("t1") /\ UNCHANGED tickLog
CrashTickEval == TickEval("t1") /\ UNCHANGED tickLog
CrashTickCheck == TickCheck("t1", FALSE) /\ UNCHANGED tickLog
CrashTickSend == TickSend("t1", TRUE, {}) /\ UNCHANGED tickLog
CrashTickClose == TickClose("t1", TRUE, {}) /\ UNCHANGED tickLog
CrashTickMark == TickMark("t1", FALSE) /\ UNCHANGED tickLog
CrashRestart == Restart(TRUE)
CrashRestoreOne == \E p \in PollIds : RestoreOne(p, TRUE, TRUE)
CrashMessageDeleted == \E p \in PollIds : MessageDeleted(p)

NextRestart ==
    \/ CrashTickStart \/ CrashTickEval \/ CrashTickCheck
    \/ CrashTickSend \/ CrashTickClose \/ CrashTickMark \/ SchedClock
    \/ CrashRestart \/ CrashRestoreOne \/ RestoreDone \/ CrashMessageDeleted
SpecRestart == InitRestart /\ [][NextRestart]_vars

\* ------------------------------------------- deletion during a vote -----
\* One poll, the clicks of u1 handled one at a time, one scheduler task, and
\* reconnections: the message of the poll may be deleted and on_ready may
\* fire again at any time, while a vote or a tick is in progress.  The
\* lookups and INSERTs of the scheduler do not fail otherwise.
OrphanVoteFetch == \E e \in AllEmojis : VoteFetch("h1", 1, "u1", e) /\ UNCHANGED hist
OrphanReconnect == \E selected \in BOOLEAN : Reconnect(selected)
OrphanRestoreOne == \E p \in PollIds, answers \in BOOLEAN, ok \in BOOLEAN :
    RestoreOne(p, answers, ok)

NextOrphan ==
    \/ OrphanVoteFetch \/ SeqVoteDeleteOne \/ SeqVoteDeleteAll \/ SeqVoteInsert
    \/ ConcVoteAck \/ ConcVoteRefresh \/ SeqVoteDbError
    \/ CrashTickStart \/ CrashTickEval \/ CrashTickCheck \/ CrashTickClose \/ CrashTickMark
    \/ CrashMessageDeleted \/ OrphanReconnect \/ OrphanRestoreOne \/ RestoreDone
    \/ VoteClock
SpecOrphan == InitVote /\ [][NextOrphan]_vars

\* ------------------------------------------ two polls, both schedulers --
\* The bot runs at 18:00 with two polls created earlier.  Poll 1 is a custom
\* poll created 47 hours ago whose deadline is 25 hours ahead, or a presence
\* poll without deadline created a week ago at 19:00; poll 2 is a presence
\* poll without deadline created 47 hours ago, a custom poll created 47
\* hours ago whose deadline is at 19:00, or a presence poll without deadline
\* created at 0:00 today.
TickRowsOne ==
    {[is_presence |-> FALSE, allow_multiple |-> FALSE, max_date |-> 43,
      created_at |-> -29, event_date |-> 60, options |-> 3],
     [is_presence |-> TRUE, allow_multiple |-> FALSE, max_date |-> NoDate,
      created_at |-> -149, event_date |-> 60, options |-> 0]}
TickRowsTwo ==
    {[is_presence |-> TRUE, allow_multiple |-> FALSE, max_date |-> NoDate,
      created_at |-> -29, event_date |-> 60, options |-> 0],
     [is_presence |-> FALSE, allow_multiple |-> FALSE, max_date |-> 19,
      created_at |-> -29, event_date |-> 60, options |-> 3],
     [is_presence |-> TRUE, allow_multiple |-> FALSE, max_date |-> NoDate,
      created_at |-> 0, event_date |-> 60, options |-> 0]}

\* u1 holds the first choice of both polls, or u1 and u3, who cannot read
\* the channel any more, hold the second; u2 has not voted.
TickVoteTables ==
    {{<<p, "u1", FirstEmoji(p)>> : p \in PollIds},
     {<<p, m, SecondEmoji(p)>> : p \in PollIds, m \in {"u1", "u3"}}}

InitTicks ==
    /\ now = DAILY_REMINDER_HOUR - 1
    /\ poll \in {f \in [PollIds -> TickRowsOne \cup TickRowsTwo] :
                    f[1] \in TickRowsOne /\ f[2] \in TickRowsTwo}
    /\ polls = PollIds
    /\ votes \in TickVoteTables
    /\ reminders = [k \in PollIds \X Kinds |-> 0]
    /\ view = [p \in PollIds |-> TRUE]
    /\ msg = [p \in PollIds |-> TRUE]
    /\ vh = [h \in Handlers |-> IdleHandler]
    /\ st = [t \in Tasks |-> IdleTask]
    /\ dt = IdleDaily
    /\ rs = Ready
    /\ cp = IdleCreate
    /\ hist = <<>>
    /\ batches = [k \in PollIds \X Kinds |-> 0]
    /\ lastBatch = NoBatch
    /\ evaluated = {}
    /\ notFound = {}
    /\ tickLog = NoTick

\* The history of a tick: what its query returned when it starts, the poll
\* taken next by its loop, and the poll at hand when an error occurs.  prev
\* tells whether the tick that started last before was of the same scheduler
\* and raised.
Begun(loop, t, queried) ==
    [loop |-> loop, tnow |-> t, queried |-> queried, visited |-> <<>>, failed |-> {},
     raised |-> FALSE, prev |-> tickLog.loop = loop /\ tickLog.raised, unknown |-> {}]
Visited(p) == [tickLog EXCEPT !.visited = Append(@, p)]
Failed(p, failure) == IF failure THEN [tickLog EXCEPT !.failed = @ \cup {p}] ELSE tickLog
NoTickRunning == st["t1"].pc = "idle" /\ dt.pc \in {"idle", "sleep", "backoff"}

\* One hourly task and the daily task; the tick of one starts when no tick
\* of the other is running (the two loops write different reminder types
\* and only read the votes).
TwoTickStart ==
    /\ NoTickRunning
    /\ TickStart("t1")
    /\ tickLog' = Begun("hourly", st'["t1"].tnow, st'["t1"].todo)
TwoTickEval ==
    /\ TickEval("t1")
    /\ tickLog' = IF st'["t1"].pc = "idle" THEN tickLog ELSE Visited(st'["t1"].poll)
TwoTickCheck == \E fails \in BOOLEAN :
    TickCheck("t1", fails) /\ tickLog' = Failed(st["t1"].poll, fails)
TwoTickSend == \E fetched \in BOOLEAN :
    TickSend("t1", fetched, {}) /\ tickLog' = Failed(st["t1"].poll, ~fetched)
TwoTickClose == \E fetched \in BOOLEAN :
    TickClose("t1", fetched, {}) /\ tickLog' = Failed(st["t1"].poll, ~fetched)
TwoTickMark == \E fails \in BOOLEAN :
    TickMark("t1", fails) /\ tickLog' = Failed(st["t1"].poll, fails)
TwoTickPollError == TickPollError("t1") /\ tickLog' = Failed(st["t1"].poll, TRUE)
TwoDailySleep == DailySleep /\ UNCHANGED tickLog
TwoDailyWake == \E selected \in BOOLEAN :
    /\ NoTickRunning
    /\ DailyWake(selected)
    /\ tickLog' = [Begun("daily", dt'.tnow, dt'.todo) EXCEPT !.raised = ~selected]
TwoDailyEval ==
    /\ DailyEval
    /\ tickLog' = IF dt'.pc = "idle" THEN tickLog ELSE Visited(dt'.poll)
TwoDailyCheck == \E fails \in BOOLEAN : DailyCheck(fails) /\ tickLog' = Failed(dt.poll, fails)
TwoDailySend == \E fetched \in BOOLEAN : DailySend(fetched, {}) /\ tickLog' = Failed(dt.poll, ~fetched)
TwoDailyMark == \E fails \in BOOLEAN : DailyMark(fails) /\ tickLog' = Failed(dt.poll, fails)
TwoDailyPollError == DailyPollError /\ tickLog' = Failed(dt.poll, TRUE)
\* A tick is over well within the hour.
TickClock == NoTickRunning /\ ClockTick(MaxTickTime) /\ UNCHANGED hist

NextTicks ==
    \/ TwoTickStart \/ TwoTickEval \/ TwoTickCheck \/ TwoTickSend
    \/ TwoTickClose \/ TwoTickMark \/ TwoTickPollError
    \/ TwoDailySleep \/ TwoDailyWake \/ TwoDailyEval \/ TwoDailyCheck
    \/ TwoDailySend \/ TwoDailyMark \/ TwoDailyPollError \/ TickClock
SpecTicks == InitTicks /\ [][NextTicks]_vars

\* ------------------------------------------------ failing deliveries ---
\* The bot runs at 18:00 with two presence polls on which u1 and u3 hold
\* Waiting and u2 has not voted.  Poll 1 has no deadline and was created a
\* week ago at 19:00; poll 2 was created 47 hours ago and has no deadline,
\* or its deadline is at 19:00.
DeliverRows ==
    {[is_presence |-> TRUE, allow_multiple |-> FALSE, max_date |-> NoDate,
      created_at |-> -29, event_date |-> 60, options |-> 0],
     [is_presence |-> TRUE, allow_multiple |-> FALSE, max_date |-> 19,
      created_at |-> -29, event_date |-> 60, options |-> 0]}

InitDeliver ==
    /\ now = DAILY_REMINDER_HOUR - 1
    /\ \E r \in DeliverRows :
          poll = [p \in PollIds |->
                    IF p = 1
                    THEN [is_presence |-> TRUE, allow_multiple |-> FALSE, max_date |-> NoDate,
                          created_at |-> -149, event_date |-> 60, options |-> 0]
                    ELSE r]
    /\ polls = PollIds
    /\ votes = {<<p, m, Waiting>> : p \in PollIds, m \in {"u1", "u3"}}
    /\ reminders = [k \in PollIds \X Kinds |-> 0]
    /\ view = [p \in PollIds |-> TRUE]
    /\ msg = [p \in PollIds |-> TRUE]
    /\ vh = [h \in Handlers |-> IdleHandler]
    /\ st = [t \in Tasks |-> IdleTask]
    /\ dt = IdleDaily
    /\ rs = Ready
    /\ cp = IdleCreate
    /\ hist = <<>>
    /\ batches = [k \in PollIds \X Kinds |-> 0]
    /\ lastBatch = NoBatch
    /\ evaluated = {}
    /\ notFound = {}
    /\ tickLog = NoTick

\* The members who may have closed their direct messages.
ClosedSets == SUBSET {"u1", "u2"}

\* The store and the fetches succeed; the direct message to any of u1 and
\* u2 may fail.
DeliverTickStart == NoTickRunning /\ TickStart("t1") /\ UNCHANGED tickLog
DeliverTickEval == TickEval("t1") /\ UNCHANGED tickLog
DeliverTickCheck == TickCheck("t1", FALSE) /\ UNCHANGED tickLog
DeliverTickSend == \E closed \in ClosedSets :
    TickSend("t1", TRUE, closed) /\ UNCHANGED tickLog
DeliverTickClose == \E closed \in ClosedSets :
    TickClose("t1", TRUE, closed) /\ UNCHANGED tickLog
DeliverTickMark == TickMark("t1", FALSE) /\ UNCHANGED tickLog
DeliverDailySleep == DailySleep /\ UNCHANGED tickLog
DeliverDailyWake == NoTickRunning /\ DailyWake(TRUE) /\ UNCHANGED tickLog
DeliverDailyEval == DailyEval /\ UNCHANGED tickLog
DeliverDailyCheck == DailyCheck(FALSE) /\ UNCHANGED tickLog
DeliverDailySend == \E closed \in ClosedSets : DailySend(TRUE, closed) /\ UNCHANGED tickLog
DeliverDailyMark == DailyMark(FALSE) /\ UNCHANGED tickLog

NextDeliver ==
    \/ DeliverTickStart \/ DeliverTickEval \/ DeliverTickCheck \/ DeliverTickSend
    \/ DeliverTickClose \/ DeliverTickMark
    \/ DeliverDailySleep \/ DeliverDailyWake \/ DeliverDailyEval \/ DeliverDailyCheck
    \/ DeliverDailySend \/ DeliverDailyMark \/ TickClock
SpecDeliver == InitDeliver /\ [][NextDeliver]_vars

\* ---------------------------------------------- scheduler liveness -----
\* The bot runs at 18:00 with one custom poll without deadline, created 47
\* hours ago, on which nobody voted.  Any tick may fail: the SELECT of
\* either scheduler raises, or an exception leaves the tick.
InitLive ==
    /\ now = DAILY_REMINDER_HOUR - 1
    /\ OnePoll([is_presence |-> FALSE, allow_multiple |-> FALSE, max_date |-> NoDate,
                created_at |-> -29, event_date |-> 60, options |-> 3])
    /\ votes = {}

LiveTickQueryError ==
    /\ NoTickRunning
    /\ TickQueryError("t1")
    /\ tickLog' = [Begun("hourly", now, {}) EXCEPT !.raised = TRUE]
LiveTickBegins == TwoTickStart \/ LiveTickQueryError
LiveTickRaises == TickRaises("t1") /\ tickLog' = [tickLog EXCEPT !.raised = TRUE]
LiveDailyRaises == DailyRaises /\ tickLog' = [tickLog EXCEPT !.raised = TRUE]
LiveBackoffOver == DailyBackoffOver /\ UNCHANGED tickLog
\* A sleep that is over is noticed within MaxTickLag hours.
LiveClock ==
    /\ NoTickRunning
    /\ dt.pc \in {"sleep", "backoff"} => now < dt.target + MaxTickLag
    /\ ClockTick(MaxLiveTime)
    /\ UNCHANGED hist

NextLive ==
    \/ LiveTickBegins \/ TwoTickEval \/ LiveTickRaises
    \/ TwoDailySleep \/ TwoDailyWake \/ TwoDailyEval \/ TwoDailyCheck
    \/ TwoDailySend \/ TwoDailyMark \/ TwoDailyPollError
    \/ LiveDailyRaises \/ LiveBackoffOver \/ LiveClock

\* While the bot is not closed the event loop resumes every task that can
\* run, and time passes.  A tick of one scheduler starts between two ticks
\* of the other, which it finds again and again: strong fairness for the
\* steps that start a tick and for the clock.
FairLive ==
    /\ SF_vars(LiveTickBegins) /\ WF_vars(TwoTickEval)
    /\ WF_vars(TwoDailySleep) /\ SF_vars(TwoDailyWake) /\ WF_vars(TwoDailyEval)
    /\ WF_vars(TwoDailyCheck) /\ WF_vars(TwoDailySend) /\ WF_vars(TwoDailyMark)
    /\ WF_vars(LiveBackoffOver) /\ SF_vars(LiveClock)
SpecLive == InitLive /\ [][NextLive]_vars /\ FairLive

\* ------------------------------------------------ startup resume ---------
\* Two polls, as in the specification of the two schedulers, with one hourly
\* task whose store accesses succeed: a deadline may pass and the poll be
\* closed before the process is started again.  A message may be deleted at
\* any time.  On startup on_ready runs restore_poll_views before it creates
\* the scheduler tasks; the SELECT of the resume succeeds, and for each poll
\* the platform may fail to answer and the DELETE or the edit may raise.
ResumeRestart == Restart(TRUE)
ResumeRestoreOne == \E p \in PollIds, answers \in BOOLEAN, ok \in BOOLEAN :
    RestoreOne(p, answers, ok)
ResumeClock == ClockTick(MaxTickTime) /\ UNCHANGED hist

NextResume ==
    \/ CrashTickStart \/ CrashTickEval \/ CrashTickCheck
    \/ CrashTickSend \/ CrashTickClose \/ CrashTickMark
    \/ CrashMessageDeleted \/ ResumeRestart \/ ResumeRestoreOne \/ RestoreDone
    \/ ResumeClock
SpecResume == InitTicks /\ [][NextResume]_vars

\* ------------------------------------------------ the change of hour ----
\* The bot starts at 18:00 of day 3 with one presence poll without deadline
\* created on day 2 at 18:00 or at 19:00; nobody has voted.  Daylight saving
\* time ends in the night after.  The daily task alone runs, and wakes at
\* the end of its sleep or at most MaxTickLag hours later.
DstRows ==
    {[is_presence |-> TRUE, allow_multiple |-> FALSE, max_date |-> NoDate,
      created_at |-> c, event_date |-> 140, options |-> 0] : c \in {66, 67}}

InitDst ==
    /\ now = 90
    /\ \E r \in DstRows : OnePoll(r)
    /\ votes = {}

DstClock ==
    /\ NoTickRunning
    /\ dt.pc = "sleep" => now < dt.target + MaxTickLag
    /\ ClockTick(MaxDstTime)
    /\ UNCHANGED hist

NextDst ==
    \/ TwoDailySleep \/ TwoDailyWake \/ TwoDailyEval \/ TwoDailyCheck
    \/ TwoDailySend \/ TwoDailyMark \/ TwoDailyPollError \/ DstClock
SpecDst == InitDst /\ [][NextDst]_vars

\* ------------------------------------------------ the hourly cadence ----
\* One poll as in the scheduler specifications and the hourly task alone,
\* with a store and a platform that do not fail.  reminder_scheduler ticks
\* when it starts and sleeps an hour after each tick: no hour has two
\* ticks, a tick is over within its hour, and of two hours in a row one at
\* least has a tick.
TickedAt(t) == tickLog.loop = "hourly" /\ tickLog.tnow = t

HourlyTickStart ==
    /\ ~TickedAt(now)
    /\ TickStart("t1")
    /\ tickLog' = Begun("hourly", st'["t1"].tnow, st'["t1"].todo)
HourlyClock ==
    /\ st["t1"].pc = "idle"
    /\ TickedAt(now) \/ TickedAt(now - 1)
    /\ ClockTick(MaxSchedTime)
    /\ UNCHANGED hist

NextHourly ==
    \/ HourlyTickStart \/ CrashTickEval \/ CrashTickCheck
    \/ CrashTickSend \/ CrashTickClose \/ CrashTickMark \/ HourlyClock
SpecHourly == InitSched /\ [][NextHourly]_vars

\* ------------------------------------------------ failing lookups -------
\* Two polls and both schedulers as in the specification of the two
\* schedulers; the lookups in reminders_sent may raise, while the platform
\* answers and the INSERTs succeed.
Unknown(p, k, fails) ==
    IF fails
    THEN [tickLog EXCEPT !.failed = @ \cup {p},
                         !.unknown = @ \cup {<<p, k, batches[<<p, k>>], reminders[<<p, k>>]>>}]
    ELSE tickLog

LookupTickCheck == \E fails \in BOOLEAN :
    /\ TickCheck("t1", fails)
    /\ tickLog' = Unknown(st["t1"].poll, Head(st["t1"].kinds), fails)
LookupTickSend == TickSend("t1", TRUE, {}) /\ UNCHANGED tickLog
LookupTickClose == TickClose("t1", TRUE, {}) /\ UNCHANGED tickLog
LookupTickMark == TickMark("t1", FALSE) /\ UNCHANGED tickLog
LookupDailyWake ==
    /\ NoTickRunning
    /\ DailyWake(TRUE)
    /\ tickLog' = Begun("daily", dt'.tnow, dt'.todo)
LookupDailyCheck == \E fails \in BOOLEAN :
    /\ DailyCheck(fails)
    /\ tickLog' = Unknown(dt.poll, NonVoters(dt.day), fails)
LookupDailySend == DailySend(TRUE, {}) /\ UNCHANGED tickLog
LookupDailyMark == DailyMark(FALSE) /\ UNCHANGED tickLog

NextLookup ==
    \/ TwoTickStart \/ TwoTickEval \/ LookupTickCheck \/ LookupTickSend
    \/ LookupTickClose \/ LookupTickMark
    \/ TwoDailySleep \/ LookupDailyWake \/ TwoDailyEval \/ LookupDailyCheck
    \/ LookupDailySend \/ LookupDailyMark \/ TickClock
SpecLookup == InitTicks /\ [][NextLookup]_vars

\* ---------------------------------------------- creation specification --
\* The bot is running at noon of day 0 and has no poll yet.
InitCreate ==
    /\ now = 12
    /\ poll = [p \in PollIds |-> NoRow]
    /\ polls = {}
    /\ votes = {}
    /\ reminders = [k \in PollIds \X Kinds |-> 0]
    /\ view = [p \in PollIds |-> FALSE]
    /\ msg = [p \in PollIds |-> FALSE]
    /\ vh = [h \in Handlers |-> IdleHandler]
    /\ st = [t \in Tasks |-> IdleTask]
    /\ dt = IdleDaily
    /\ rs = Ready
    /\ cp = IdleCreate
    /\ hist = <<>>
    /\ batches = [k \in PollIds \X Kinds |-> 0]
    /\ lastBatch = NoBatch
    /\ evaluated = {}
    /\ notFound = {}
    /\ tickLog = NoTick

\* The commands, given no choice, one, two, three or all twenty, and the
\* submissions up to the creation of the first poll.
ChoiceCounts == {0, 1, 2, 3, ChoiceParameters}
NewCommand == \E n \in ChoiceCounts, single \in BOOLEAN :
    /\ PollCommand(n, single)
    /\ UNCHANGED hist
NewSubmit == \E event_in \in DateInputs, max_in \in DateInputs \cup {<<"">>} :
    /\ polls = {} /\ \A p \in PollIds : ~msg[p]
    /\ Submit(event_in, max_in, cp.is_presence, cp.allow_multiple)
    /\ UNCHANGED hist
NewSend == \E ok \in BOOLEAN : CreateSend(ok) /\ UNCHANGED hist
NewInsert == \E ok \in BOOLEAN : CreateInsert(ok) /\ UNCHANGED hist
NewDisplay == \E ok \in BOOLEAN : CreateDisplay(ok) /\ UNCHANGED hist
CreateClock == ClockTick(MaxCreateTime) /\ UNCHANGED hist

NextCreate == NewCommand \/ NewSubmit \/ NewSend \/ NewInsert \/ NewDisplay \/ CreateClock
SpecCreate == InitCreate /\ [][NextCreate]_vars

\* ------------------------------------------------------ vote claims -----
\* A poll that is single-choice by its row: a presence poll, or a custom
\* poll created with allow_multiple = false.
SingleChoice(p) == poll[p].is_presence \/ ~poll[p].allow_multiple

Rows(v, p, u) == {e \in AllEmojis : <<p, u, e>> \in v}
RowsOfOthers(v, p, u) == {r \in v : ~(r[1] = p /\ r[2] = u)}
Last == hist[Len(hist)]
SameClick(r, s) == r.poll = s.poll /\ r.user = s.user /\ r.emoji = s.emoji

\* C1: in a single-choice poll, when the interactions of a voter are handled
\* one after the other, the voter never has more than one row in votes.
C1_SingleChoiceAtMostOneRow ==
    \A p \in PollIds, u \in Voters :
        SingleChoice(p) => Cardinality(Rows(votes, p, u)) <= 1

\* C1 witness: a voter of a single-choice poll clicked one choice and then
\* another, both calls returned, and the voter has one row.
C1_Witness ==
    /\ AllIdle /\ Len(hist) = 2 /\ hist[1].ok /\ hist[2].ok
    /\ SingleChoice(hist[2].poll)
    /\ hist[1].user = hist[2].user /\ hist[1].emoji # hist[2].emoji
    /\ Rows(hist[2].before, hist[2].poll, hist[2].user) = {hist[1].emoji}
    /\ Cardinality(Rows(votes, hist[2].poll, hist[2].user)) = 1

\* C2 (as claimed): with concurrent interactions too, no voter of a
\* single-choice poll has two rows in votes.
C2_UniqueRowPerVoter ==
    \A r1 \in votes, r2 \in votes :
        (r1[1] = r2[1] /\ r1[2] = r2[2] /\ SingleChoice(r1[1])) => r1[3] = r2[3]

\* C3 (as claimed): two calls in a row with the same click, each succeeding,
\* leave the votes table as it was before the first.
C3_TwiceIsIdentity ==
    (AllIdle /\ Len(hist) = 2 /\ hist[1].ok /\ hist[2].ok /\ SameClick(hist[1], hist[2]))
        => votes = hist[1].before

\* C3 (amended): two successful calls in a row with the same click leave the
\* table as it was, when the poll is multiple-choice or the voter held no
\* other choice; in a single-choice poll where the voter held another choice
\* they leave the voter without any row and the other rows as they were.
C3_TwiceIsIdentityUnlessReplaced ==
    (AllIdle /\ Len(hist) = 2 /\ hist[1].ok /\ hist[2].ok /\ SameClick(hist[1], hist[2]))
        => LET p == hist[1].poll
               u == hist[1].user
               e == hist[1].emoji
               held == Rows(hist[1].before, p, u)
           IN IF ~SingleChoice(p) \/ held \subseteq {e}
              THEN votes = hist[1].before
              ELSE /\ Rows(votes, p, u) = {}
                   /\ RowsOfOthers(votes, p, u) = RowsOfOthers(hist[1].before, p, u)

\* C3 witness: in a multiple-choice poll a voter who held another choice
\* clicked the same new choice twice.
C3_Witness ==
    /\ AllIdle /\ Len(hist) = 2 /\ hist[1].ok /\ hist[2].ok
    /\ SameClick(hist[1], hist[2])
    /\ ~SingleChoice(hist[1].poll)
    /\ Rows(hist[1].before, hist[1].poll, hist[1].user) \ {hist[1].emoji} # {}
    /\ hist[1].emoji \notin Rows(hist[1].before, hist[1].poll, hist[1].user)
    /\ votes = hist[1].before

\* C4: in a single-choice poll, a voter who holds exactly A and clicks another
\* choice B holds exactly B when the call has returned successfully.
C4_ReplaceLeavesOnlyNewChoice ==
    (AllIdle /\ Len(hist) >= 1 /\ Last.ok /\ SingleChoice(Last.poll))
        => \A a \in AllEmojis :
              (Rows(Last.before, Last.poll, Last.user) = {a} /\ a # Last.emoji)
                  => Rows(votes, Last.poll, Last.user) = {Last.emoji}

\* C4 witness: such a replacement has happened.
C4_Witness ==
    /\ AllIdle /\ Len(hist) >= 1 /\ Last.ok /\ SingleChoice(Last.poll)
    /\ Cardinality(Rows(Last.before, Last.poll, Last.user)) = 1
    /\ Last.emoji \notin Rows(Last.before, Last.poll, Last.user)
    /\ Rows(votes, Last.poll, Last.user) = {Last.emoji}

\* C5: in a multiple-choice poll, a voter without rows who selects A and then
\* B has exactly the rows A and B, and selecting a choice the voter holds
\* removes that row only; the rows of the other voters stay as they were.
C5_MultipleChoiceAdditive ==
    /\ (AllIdle /\ Len(hist) = 2 /\ hist[1].ok /\ hist[2].ok
        /\ ~SingleChoice(hist[1].poll)
        /\ hist[1].poll = hist[2].poll /\ hist[1].user = hist[2].user
        /\ hist[1].emoji # hist[2].emoji
        /\ Rows(hist[1].before, hist[1].poll, hist[1].user) = {})
            => /\ Rows(votes, hist[1].poll, hist[1].user) = {hist[1].emoji, hist[2].emoji}
               /\ RowsOfOthers(votes, hist[1].poll, hist[1].user)
                    = RowsOfOthers(hist[1].before, hist[1].poll, hist[1].user)
    /\ (AllIdle /\ Len(hist) >= 1 /\ Last.ok /\ ~SingleChoice(Last.poll)
        /\ Last.emoji \in Rows(Last.before, Last.poll, Last.user))
            => votes = Last.before \ {<<Last.poll, Last.user, Last.emoji>>}

\* C5 witness: a voter holding A and B selected A again and holds B, while
\* another voter has rows.
C5_Witness ==
    /\ AllIdle /\ Len(hist) = 2 /\ hist[1].ok /\ hist[2].ok
    /\ ~SingleChoice(Last.poll)
    /\ hist[1].user = Last.user /\ hist[1].emoji # Last.emoji
    /\ Rows(hist[1].before, Last.poll, Last.user) = {Last.emoji}
    /\ Rows(Last.before, Last.poll, Last.user) = {hist[1].emoji, Last.emoji}
    /\ Rows(votes, Last.poll, Last.user) = {hist[1].emoji}
    /\ RowsOfOthers(votes, Last.poll, Last.user) # {}

\* C16 (as claimed): when a call has returned after one of its store accesses
\* raised, the votes table is as it was when the call started.
C16_FailedVoteChangesNothing ==
    (AllIdle /\ Len(hist) >= 1 /\ ~Last.ok) => votes = Last.before

\* C18 (as claimed): a call that has returned and changed the votes table
\* refreshed the display once.
C18_ChangeIsRefreshed ==
    (AllIdle /\ Len(hist) >= 1 /\ votes # Last.before) => Last.refresh # "none"

\* C19: when the display refresh of a call failed, the votes table is as the
\* store accesses of the call left it.
C19_FailedRefreshKeepsVotes ==
    (AllIdle /\ Len(hist) >= 1 /\ Last.refresh = "failed") => votes = Last.after

\* C19 witness: a call replaced the voter's choice and its refresh failed.
C19_Witness ==
    /\ AllIdle /\ Len(hist) >= 1 /\ Last.refresh = "failed"
    /\ Rows(Last.before, Last.poll, Last.user) # {}
    /\ Rows(votes, Last.poll, Last.user) = {Last.emoji}
    /\ Last.emoji \notin Rows(Last.before, Last.poll, Last.user)

\* C6 (as claimed): no step of a call that started when the poll's deadline
\* had passed changes the votes table.
C6_LateVoteChangesNothing ==
    [][\A h \in Handlers : (vh[h].late /\ vh'[h] # vh[h]) => votes' = votes]_vars

\* ------------------------------------------------- scheduler claims -----
DeadlineKinds == {JMinus2, JMinus1}

\* The AwaitingSet: the members who are not bots and can read the channel,
\* and have no vote on the poll or, in a presence poll, the vote Waiting.
AwaitingSet(v, p) ==
    {m \in {"u1", "u2"} :
        \/ ~\E r \in v : r[1] = p /\ r[2] = m
        \/ poll[p].is_presence /\ \E r \in v : r[1] = p /\ r[2] = m /\ r[3] = Waiting}

\* C7 (as claimed): once a tick has evaluated a reminder type of a poll while
\* its time condition held (its lookup in reminders_sent succeeding), and no
\* tick is running, there is exactly one row of that type for the poll and
\* exactly one batch was dispatched for it.
C7_ExactlyOneRowAndBatch ==
    st["t1"].pc = "idle" =>
        \A pk \in evaluated : reminders[pk] = 1 /\ batches[pk] = 1

\* C8 (as claimed): reminders_sent never holds two rows with the same poll
\* and reminder type, overlapping ticks included.
C8_AtMostOneRowPerKind ==
    \A pk \in PollIds \X Kinds : reminders[pk] <= 1

\* C11 (as claimed): whenever the 'closed' row of a poll exists, the voting
\* buttons have been removed from the poll's message.
C11_ClosedImpliesViewRemoved ==
    \A p \in PollIds : reminders[<<p, Closed>>] > 0 => ~view[p]

\* C9: a tick that started when the 'closed' row of a poll existed neither
\* sends nor records a J-2, J-1 or weekly reminder for that poll.
C9_NothingAfterClosed ==
    \A t \in Tasks :
        (st[t].pc \in {"send", "mark"} /\ st[t].poll \in st[t].closedAtStart)
            => Head(st[t].kinds) \notin DeadlineKinds \cup WeeklyKinds

\* C9 witness: a tick that started after 'closed' was recorded is evaluating
\* the closed poll.
C9_Witness ==
    \E t \in Tasks :
        /\ st[t].pc = "check"
        /\ st[t].poll \in st[t].closedAtStart
        /\ reminders[<<st[t].poll, Closed>>] = 1

C24_ClosureNotifiesAwaitingSet ==
    /\ lastBatch.kind = Closed =>
          /\ lastBatch.to = AwaitingSet(lastBatch.seen, lastBatch.poll)
          /\ lastBatch.attempted = lastBatch.to
    /\ \A p \in PollIds :
          (reminders[<<p, Closed>>] > 0 \/ batches[<<p, Closed>>] > 0)
              => poll[p].max_date # NoDate /\ now >= poll[p].max_date

\* C24 witness: a presence poll was closed; the notification went to u1, who
\* holds Waiting, and to u2, who has no vote, and not to u3, who holds
\* Waiting and cannot read the channel; 'closed' is recorded.
C24_Witness ==
    /\ lastBatch.kind = Closed
    /\ poll[lastBatch.poll].is_presence
    /\ <<lastBatch.poll, "u1", Waiting>> \in lastBatch.seen
    /\ <<lastBatch.poll, "u3", Waiting>> \in lastBatch.seen
    /\ lastBatch.attempted = {"u1", "u2"}
    /\ reminders[<<lastBatch.poll, Closed>>] = 1

C14_NoBatchTwice ==
    \A pk \in PollIds \X Kinds : batches[pk] <= 1

\* C15 (as claimed): once an operation has found the message of a poll
\* missing, the poll has no row in polls any more.
C15_MissingMessageDropsPoll ==
    \A p \in notFound : p \notin polls

\* -------------------------------------------- daily scheduler claims ---
\* C12 (as claimed): a non-voter reminder is dispatched only for polls that
\* have no deadline.
C12_NudgeOnlyWithoutDeadline ==
    \A p \in PollIds, d \in 1..MaxDays :
        batches[<<p, NonVoters(d)>>] > 0 => poll[p].max_date = NoDate

\* C12 (amended): a non-voter reminder is dispatched and recorded only for a
\* poll that is open when the daily tick reads the clock: one without
\* deadline, or one whose deadline is later than that.
C12_NudgeOnlyOpenPolls ==
    dt.pc \in {"check", "send", "mark"} =>
        \/ poll[dt.poll].max_date = NoDate
        \/ poll[dt.poll].max_date > dt.tnow

\* C12 witness: the non-voter reminder of a poll that has a deadline was sent
\* and is about to be recorded, while the other poll's deadline has passed
\* and no reminder was sent for it.
C12_Witness ==
    /\ dt.pc = "mark"
    /\ poll[dt.poll].max_date # NoDate
    /\ lastBatch.kind \in NonVoterKinds /\ lastBatch.poll = dt.poll /\ lastBatch.to # {}
    /\ \E q \in PollIds \ {dt.poll} :
          /\ poll[q].max_date # NoDate /\ poll[q].max_date <= dt.tnow
          /\ \A d \in 1..MaxDays : batches[<<q, NonVoters(d)>>] = 0

\* C13: a non-voter reminder is dispatched only for the age d, in whole days,
\* of the poll at the daily tick, with d positive and even; when its fetches
\* succeed it goes to exactly the members who are not bots, can read the
\* channel and have no vote or, in a presence poll, the vote Waiting; and a
\* daily tick that met no error leaves, for every poll without deadline
\* whose age is positive and even, the row non_voters_day_<d>.
C13_NudgeOnEvenDays ==
    /\ \A p \in PollIds, d \in 1..MaxDays :
          batches[<<p, NonVoters(d)>>] > 0 => d % 2 = 0
    /\ dt.pc = "mark" =>
          /\ lastBatch.poll = dt.poll
          /\ lastBatch.kind = NonVoters((dt.tnow - poll[dt.poll].created_at) \div 24)
    /\ (lastBatch.kind \in NonVoterKinds /\ lastBatch.fetched) =>
          \A m \in Members :
              m \in lastBatch.to <=>
                 /\ m \in {"u1", "u2"}
                 /\ \/ ~\E r \in lastBatch.seen : r[1] = lastBatch.poll /\ r[2] = m
                    \/ /\ poll[lastBatch.poll].is_presence
                       /\ <<lastBatch.poll, m, Waiting>> \in lastBatch.seen
    /\ (NoTickRunning /\ tickLog.loop = "daily" /\ tickLog.failed = {}) =>
          \A p \in tickLog.queried :
              LET d == (tickLog.tnow - poll[p].created_at) \div 24 IN
              (poll[p].max_date = NoDate /\ d \in 1..MaxDays /\ d % 2 = 0)
                  => reminders[<<p, NonVoters(d)>>] >= 1 /\ batches[<<p, NonVoters(d)>>] >= 1

\* C13 witness: on day 2 of a presence poll without deadline the reminder
\* went to the Waiting voter u1 and to u2, who has no vote, and was recorded.
C13_Witness ==
    /\ NoTickRunning /\ tickLog.loop = "daily" /\ tickLog.failed = {}
    /\ lastBatch.kind = NonVoters(2) /\ lastBatch.fetched
    /\ poll[lastBatch.poll].is_presence /\ poll[lastBatch.poll].max_date = NoDate
    /\ <<lastBatch.poll, "u1", Waiting>> \in lastBatch.seen
    /\ <<lastBatch.poll, "u3", Waiting>> \in lastBatch.seen
    /\ lastBatch.to = {"u1", "u2"}
    /\ reminders[<<lastBatch.poll, NonVoters(2)>>] = 1

\* C20: when a tick of either scheduler is over, every poll its query
\* returned was evaluated, whatever errors the evaluations of the other
\* polls met.
C20_EveryPollEvaluated ==
    NoTickRunning => {tickLog.visited[i] : i \in 1..Len(tickLog.visited)} = tickLog.queried

\* C20 witness: the evaluation of the first poll of a tick met an error and
\* the second poll was evaluated.
C20_Witness ==
    /\ NoTickRunning
    /\ Len(tickLog.visited) = 2
    /\ tickLog.visited[1] \in tickLog.failed
    /\ tickLog.visited[2] \notin tickLog.failed

\* ---------------------------------------------------- delivery claims --
\* C22: in a batch of any of the three kinds, member.send is called for
\* every member of the computed recipient set, whichever deliveries fail,
\* and once the tick is over the reminder type of the batch is recorded.
C22_FailedDeliveryKeepsBatch ==
    /\ lastBatch.attempted = lastBatch.to
    /\ lastBatch.delivered \subseteq lastBatch.to
    /\ (NoTickRunning /\ lastBatch.kind # NoBatch.kind)
          => reminders[<<lastBatch.poll, lastBatch.kind>>] >= 1

\* C22 witness: the closure notification could not be delivered to one of
\* its two recipients, was delivered to the other, and 'closed' is
\* recorded.
C22_Witness ==
    /\ NoTickRunning
    /\ lastBatch.kind = Closed
    /\ Cardinality(lastBatch.to) = 2
    /\ Cardinality(lastBatch.delivered) = 1
    /\ reminders[<<lastBatch.poll, Closed>>] = 1

\* C23 (as claimed): in no batch of any of the three kinds is member.send
\* called for a bot or for a member who cannot read the poll's channel.
C23_OnlyReadersMessaged ==
    \A m \in lastBatch.attempted : ~IsBot(m) /\ CanRead(m)

\* ---------------------------------------------------- liveness claims --
HourlyFailed == tickLog.loop = "hourly" /\ tickLog.raised
DailyFailed == tickLog.loop = "daily" /\ tickLog.raised

\* C21: a tick of the hourly scheduler that raised is followed by the rest
\* of the task and every rest by another tick; a tick of the daily scheduler
\* that raised is followed by its sleep, the sleep after an exception by the
\* next cycle, and every sleep that ends within the hours explored by a
\* tick.
C21_SchedulersSurviveFailingTick ==
    /\ HourlyFailed ~> (st["t1"].pc = "idle")
    /\ (st["t1"].pc = "idle") ~> (st["t1"].pc = "eval")
    /\ DailyFailed ~> (dt.pc \in {"idle", "sleep", "backoff"})
    /\ (dt.pc = "backoff" /\ dt.target <= MaxLiveTime) ~> (dt.pc = "idle")
    /\ (dt.pc = "idle") ~> (dt.pc = "sleep")
    /\ (dt.pc = "sleep" /\ dt.target <= MaxLiveTime) ~> (dt.pc = "eval")

\* C21 witness: a tick of the hourly scheduler is running whose predecessor
\* raised, while the daily scheduler sleeps after an exception left its
\* tick.
C21_Witness ==
    /\ st["t1"].pc = "eval"
    /\ tickLog.loop = "hourly" /\ tickLog.prev
    /\ dt.pc = "backoff"

\* ---------------------------------------------------- creation claims --
\* The hour a field of the DateModal stands for.
HourTyped(x) == IF x[1] = "time" THEN x[2] * 24 + x[3] ELSE x[2] * 24

\* The submission at hand breaks a rule on the dates, at the time it was
\* validated: a field is no date, the event is in the past, or the deadline
\* is in the past or after the event.
BreaksDateRules ==
    \/ cp.event_in[1] \notin {"day", "time"}
    \/ cp.max_in[1] \notin {"", "day", "time"}
    \/ HourTyped(cp.event_in) < cp.vnow
    \/ /\ cp.max_in[1] \in {"day", "time"}
       /\ \/ HourTyped(cp.max_in) < cp.vnow
          \/ HourTyped(cp.max_in) > HourTyped(cp.event_in)

\* C17: the row of a poll that was persisted has, for the time its
\* submission was validated, event_date >= now and max_date null or
\* now <= max_date <= event_date; and a submission that breaks one of these
\* rules is rejected, with no row and no message created.
C17_PersistedDatesValid ==
    /\ (cp.pc # "idle" /\ cp.poll \in polls) =>
          /\ poll[cp.poll].event_date >= cp.vnow
          /\ \/ poll[cp.poll].max_date = NoDate
             \/ /\ cp.vnow <= poll[cp.poll].max_date
                /\ poll[cp.poll].max_date <= poll[cp.poll].event_date
          /\ poll[cp.poll].event_date = HourTyped(cp.event_in)
          /\ poll[cp.poll].max_date =
                IF cp.max_in = <<"">> THEN NoDate ELSE HourTyped(cp.max_in)
    /\ (cp.pc # "idle" /\ BreaksDateRules) =>
          /\ cp.pc = "rejected"
          /\ cp.poll \notin polls
          /\ ~msg[cp.poll]
    /\ cp.pc = "rejected" => BreaksDateRules

\* C25 (as claimed): when create_poll has failed after its message was sent,
\* the poll has no row in polls.
C25_FailedCreationLeavesNoPoll ==
    (cp.pc = "failed" /\ msg[cp.poll]) => cp.poll \notin polls

\* C17 witness: the first poll was persisted, with its buttons attached, and
\* its deadline and its event are both the hour of the validation.
C17_Witness ==
    /\ cp.pc = "done" /\ cp.poll = 1 /\ 1 \in polls
    /\ poll[1].max_date = cp.vnow /\ poll[1].event_date = poll[1].max_date
    /\ polls = {1}

\* ------------------------------------------------------ resume claims ----

\* C27: when the loop of the startup resume is over, the polls it took are
\* the polls that were open when it read the clock (no deadline, or a
\* deadline later than that); each of them met a failure, or had its message
\* found and its buttons attached again, or had its message missing and was
\* deleted; a poll whose deadline had passed was not touched; and a failure
\* on one poll leaves none of the others out.
C27_ResumeRestoresOpenPolls ==
    rs.pc = "restoring" =>
        /\ rs.queried = {p \in polls \cup rs.dropped :
                            poll[p].max_date = NoDate \/ poll[p].max_date > rs.tnow}
        /\ \A p \in rs.restored : msg[p] => view[p]
        /\ \A p \in rs.dropped : p \notin polls
        /\ \A p \in PollIds :
              (poll[p].max_date # NoDate /\ poll[p].max_date <= rs.tnow) =>
                  p \notin rs.restored \cup rs.dropped \cup rs.failed
        /\ rs.todo = {} =>
              rs.queried = rs.restored \cup rs.dropped \cup rs.failed

\* C27 witness: the resume is over; it failed on the first poll and attached
\* the buttons of the second again.
C27_Witness ==
    /\ rs.pc = "restoring" /\ rs.todo = {}
    /\ rs.failed = {1} /\ rs.restored = {2} /\ view[2]

\* C27 second witness: the deadline of the second poll had passed and its
\* buttons were removed when the process started again; the resume is over,
\* it deleted the first poll, whose message was missing, and the second poll
\* is still without buttons.
C27_WitnessClosed ==
    /\ rs.pc = "restoring" /\ rs.todo = {}
    /\ rs.dropped = {1} /\ rs.queried = {1}
    /\ 2 \in polls /\ msg[2] /\ ~view[2]

\* ------------------------------------------------ change-of-hour claims --

\* C28 (as claimed): the daily rule is evaluated at most once per calendar
\* day: a tick of the daily scheduler reads a later date than the tick of
\* the daily scheduler before it.
C28_DailyTickOncePerDay ==
    [][(dt.pc = "sleep" /\ dt'.pc = "eval" /\ tickLog.loop = "daily")
          => DateOf(dt'.tnow) > DateOf(tickLog.tnow)]_vars

\* C29: every poll that was persisted has no options exactly when it is a
\* presence poll; a presence poll has allow_multiple = false; a custom poll
\* has between 2 and MAX_OPTIONS options; and a command given exactly one
\* choice is refused: no modal is shown for it and nothing is created, and
\* no other command is refused.
C29_OptionsMatchKind ==
    /\ \A p \in polls :
          /\ (poll[p].options = 0) = poll[p].is_presence
          /\ poll[p].is_presence => ~poll[p].allow_multiple
          /\ ~poll[p].is_presence =>
                2 <= poll[p].options /\ poll[p].options <= MAX_OPTIONS
    /\ cp.options = 1 => cp.command = "refused" /\ cp.pc = "idle" /\ cp.poll = 0
    /\ cp.command = "refused" => cp.options = 1

\* C29 witness: a custom poll with twenty options on which several choices
\* are allowed was persisted and its buttons are attached.
C29_Witness ==
    /\ cp.pc = "done" /\ 1 \in polls
    /\ ~poll[1].is_presence /\ poll[1].options = MAX_OPTIONS /\ poll[1].allow_multiple

\* C29 second witness: a command with one choice was refused after the
\* first poll was created, and there is no second poll.
C29_WitnessRefused ==
    /\ cp.command = "refused" /\ cp.options = 1 /\ polls = {1} /\ ~msg[2]

\* ------------------------------------------------------ cadence claims ---

\* C30: for a poll created more than 49 hours before its deadline, with the
\* hourly task ticking and nothing failing, the J-2 and the J-1 reminder are
\* each dispatched and recorded once and no more, the J-2 reminder as soon
\* as its window is over and before the J-1 reminder, both before the poll
\* is closed; and a tick that handles the one does not handle the other.
C30_BothRemindersOnceInOrder ==
    (poll[1].max_date # NoDate
        /\ poll[1].max_date - poll[1].created_at > REMINDER_J_MINUS_2_MAX) =>
        /\ \A k \in {JMinus2, JMinus1} :
              reminders[<<1, k>>] <= 1 /\ batches[<<1, k>>] <= 1
        /\ now > poll[1].max_date - REMINDER_J_MINUS_2_MIN =>
              reminders[<<1, JMinus2>>] = 1 /\ batches[<<1, JMinus2>>] = 1
        /\ now > poll[1].max_date - REMINDER_J_MINUS_1_MIN =>
              reminders[<<1, JMinus1>>] = 1 /\ batches[<<1, JMinus1>>] = 1
        /\ batches[<<1, JMinus1>>] > 0 => reminders[<<1, JMinus2>>] = 1
        /\ (reminders[<<1, Closed>>] > 0 \/ batches[<<1, Closed>>] > 0) =>
              reminders[<<1, JMinus2>>] = 1 /\ reminders[<<1, JMinus1>>] = 1
        /\ st["t1"].pc \in {"check", "send", "mark"} =>
              /\ Len(st["t1"].kinds) = 1
              /\ Head(st["t1"].kinds) = JMinus1 =>
                    ~InJMinus2Window(1, st["t1"].tnow) /\ reminders[<<1, JMinus2>>] = 1
              /\ Head(st["t1"].kinds) = JMinus2 =>
                    ~InJMinus1Window(1, st["t1"].tnow) /\ batches[<<1, JMinus1>>] = 0

\* C30 witness: the deadline has come, the last tick was two hours ago, and
\* both reminders are recorded once.
C30_Witness ==
    /\ poll[1].max_date = now /\ tickLog.tnow = now - 1 /\ ~TickedAt(now)
    /\ st["t1"].pc = "idle"
    /\ reminders[<<1, JMinus2>>] = 1 /\ reminders[<<1, JMinus1>>] = 1
    /\ reminders[<<1, Closed>>] = 0

\* C31 (as claimed): with the hourly task ticking and nothing failing, the
\* first weekly reminder of a presence poll without deadline is recorded by
\* the end of the calendar day of created_at + 1 week, whatever the hour at
\* which the poll was created.
C31_WeeklyRecordedOnItsDay ==
    (poll[1].is_presence /\ poll[1].max_date = NoDate
        /\ now >= (DateOf(poll[1].created_at + 168) + 1) * 24) =>
        reminders[<<1, Weekly(1)>>] > 0

\* The weekly reminder of a poll created at 18:00: recorded by the end of
\* its day.
WeeklyRecordedWhenCreatedEarly ==
    (poll[1].is_presence /\ poll[1].max_date = NoDate
        /\ HourOf(poll[1].created_at) = 18
        /\ now >= (DateOf(poll[1].created_at + 168) + 1) * 24) =>
        reminders[<<1, Weekly(1)>>] = 1

\* ------------------------------------------------------- lookup claims ---

\* C32: when the lookup of a reminder type of a poll in reminders_sent has
\* failed in a tick, that tick dispatches no batch of that type for the poll
\* and records no row of it, and does not go on to send or to close for it.
C32_FailedLookupSkipsReminder ==
    /\ \A u \in tickLog.unknown :
          /\ batches[<<u[1], u[2]>>] = u[3]
          /\ reminders[<<u[1], u[2]>>] = u[4]
    /\ (tickLog.loop = "hourly" /\ st["t1"].pc \in {"send", "close", "mark"}) =>
          \A u \in tickLog.unknown :
              ~(u[1] = st["t1"].poll /\ u[2] = Head(st["t1"].kinds))
    /\ (tickLog.loop = "daily" /\ dt.pc \in {"send", "mark"}) =>
          \A u \in tickLog.unknown :
              ~(u[1] = dt.poll /\ u[2] = NonVoters(dt.day))

\* C32 witness: the hourly tick is over; its lookup of the J-1 reminder of
\* the first poll failed and nothing was dispatched or recorded for it,
\* while the second poll was closed and 'closed' recorded in the same tick.
C32_Witness ==
    /\ tickLog.loop = "hourly" /\ st["t1"].pc = "idle"
    /\ tickLog.unknown = {<<1, JMinus1, 0, 0>>}
    /\ reminders[<<1, JMinus1>>] = 0 /\ batches[<<1, JMinus1>>] = 0
    /\ reminders[<<2, Closed>>] = 1

\* C32 second witness: the lookup of the daily scheduler failed for the
\* second poll and its tick is over without a batch.
C32_WitnessDaily ==
    /\ tickLog.loop = "daily" /\ dt.pc \in {"idle", "sleep"}
    /\ \E u \in tickLog.unknown : u[1] = 2 /\ u[2] = NonVoters(2)
    /\ batches[<<2, NonVoters(2)>>] = 0

====
